---- MODULE Spec2Model ----
(***************************************************************************)
(* Session / concurrency manager and reply extraction of the llm_chat      *)
(* plugin (src/plugins/llm_chat/__init__.py).                              *)
(*                                                                         *)
(* The plugin runs on one asyncio event loop: code between two points at   *)
(* which a handler really suspends is one atomic action.  sessions_lock is *)
(* only ever held across code without awaits, so it is never contended and *)
(* every `async with sessions_lock` block runs without suspending.         *)
(*                                                                         *)
(* Spec is the session manager under chat messages, the admin commands     *)
(* that reach the store (clear, model, skill list) and the passing of      *)
(* time; ExtractSpec is _process_llm_response applied to one result;       *)
(* GroupSpec is the session manager at one instant under chat messages and *)
(* the commands clear, skill list, group, down and up; SkillSpec adds the  *)
(* graph of a turn (graph.py), the skill registry (skills.py), the skill   *)
(* store (core_tools.py) and the tool loader (tools.py); CommandSpec has   *)
(* the commands skill list, skill load and skill unload; LockSpec is the   *)
(* session lock around the processing timeout; GraphSpec is the graph of a *)
(* turn with the messages of its state, the trimmer and the tools node;    *)
(* ModelSpec has the command chat model; SetupSpec has skill_setup under   *)
(* any call; LoadSpec has sequences of skill load and skill unload.        *)
(***************************************************************************)
EXTENDS Integers, Sequences, FiniteSets, TLC

(***************************************************************************)
(* Bounds of the model                                                     *)
(***************************************************************************)
MaxReq == 2          \* handle_chat invocations in one behaviour
MaxSessions == 2     \* Session objects constructed in one behaviour
MaxTicks == 2        \* clock advances of one lock timeout
MaxSweeps == 1       \* clock advances of one cleanup interval
MaxLen == 2          \* length of the message contents given to the extraction
MaxInvokes == 1      \* tool calls the model asks for in one turn

(***************************************************************************)
(* Program constants                                                       *)
(***************************************************************************)
CLEANUP_INTERVAL == 600
PROCESSING_TIMEOUT == 60
LOCK_TIMEOUT == 1

Req == 1..MaxReq
Sid == 1..MaxSessions
NoSession == 0
NoReq == 0
NoTime == -1

GroupIds == {7}
UserIds == {9}

\* inbound events: a group message or a private message
Events ==
    [kind : {"group"}, group_id : GroupIds, user_id : UserIds]
      \cup [kind : {"private"}, group_id : {0}, user_id : UserIds]
NoEvent == [kind |-> "none", group_id |-> 0, user_id |-> 0]

\* keys of the session store: group_{gid}, group_{gid}_{uid}, private_{uid}
ThreadIds ==
    {<<"group", g>> : g \in GroupIds}
      \cup {<<"group", g, u>> : g \in GroupIds, u \in UserIds}
      \cup {<<"private", u>> : u \in UserIds}
NoThread == <<"none", 0>>

DEFAULT_SKILLS == <<"sgu", "weather">>

(***************************************************************************)
(* Messages, contents and replies                                          *)
(***************************************************************************)
\* a string is a sequence of characters; a list content is a sequence of parts
StrContent(s) == [kind |-> "str", val |-> s]
ListContent(l) == [kind |-> "list", val |-> l]

IsSpace(c) == c = " "

RECURSIVE lstrip(_)
lstrip(s) == IF s # <<>> /\ IsSpace(Head(s)) THEN lstrip(Tail(s)) ELSE s

RECURSIVE rstrip(_)
rstrip(s) ==
    IF s # <<>> /\ IsSpace(s[Len(s)]) THEN rstrip(SubSeq(s, 1, Len(s) - 1)) ELSE s

\* a strip that leaves the trailing whitespace
strip_left_only(s) == lstrip(s)

\* str.strip()
strip(s) == rstrip(lstrip(s))

\* Python truthiness of a str or list: empty is false
Truthy(c) == c.val # <<>>

\* str(content): a str is returned as it is, a list as its bracketed repr
PyStr(c) == IF c.kind = "str" THEN c.val ELSE <<"[">> \o c.val \o <<"]">>

Reply(tag, text) == [tag |-> tag, text |-> text]
ASSISTANT_EMPTY_REPLY == Reply("assistant_empty_reply", <<>>)
TOOL_CALL_FAILED_NO_INFO == Reply("tool_call_failed_no_info", <<>>)
SAFETY_BLOCKED == Reply("safety_blocked", <<>>)
NOT_UNDERSTOOD == Reply("not_understood", <<>>)
SESSION_BUSY == Reply("session_busy_message", <<>>)
DISABLED == Reply("disabled_message", <<>>)
TOKEN_LIMIT_ERROR == Reply("token_limit_error", <<>>)
GENERAL_ERROR == Reply("general_error", <<>>)
NoReply == Reply("none", <<>>)

\* the text of the AttributeError raised by [..].strip()
LIST_STRIP_ERROR == <<"'list' object has no attribute 'strip'">>

AIMsg(content, invalid, finish) ==
    [type |-> "ai", content |-> content, invalid_tool_calls |-> invalid,
     finish_reason |-> finish]
ToolMsg(content) ==
    [type |-> "tool", content |-> content, invalid_tool_calls |-> <<>>,
     finish_reason |-> "none"]
HumanMsg(content) ==
    [type |-> "human", content |-> content, invalid_tool_calls |-> <<>>,
     finish_reason |-> "none"]

\* outcome of _process_llm_response: the reply, whether the session of the
\* thread is deleted from the store, and the text of a raised exception
Extracted(reply, delete) == [reply |-> reply, delete |-> delete, raised |-> <<>>]
Raised(text) == [reply |-> NoReply, delete |-> FALSE, raised |-> text]

\* the AIMessage branch for empty content (lines 176-192)
EmptyAIContent(m) ==
    IF m.finish_reason = "SAFETY"
    THEN Extracted(SAFETY_BLOCKED, TRUE)
    ELSE Extracted(NOT_UNDERSTOOD, TRUE)

\* an AIMessage branch that looks at the content before the invalid tool calls
ProcessAIMessage_content_first(m) ==
    IF ~Truthy(m.content)
    THEN EmptyAIContent(m)
    ELSE IF m.invalid_tool_calls # <<>>
    THEN Extracted(Reply("tool_call_failed", <<m.invalid_tool_calls[1]>>), FALSE)
    ELSE Extracted(Reply("content", m.content.val), FALSE)

\* the AIMessage branch (lines 165-198)
ProcessAIMessage(m) ==
    IF m.invalid_tool_calls # <<>>
    THEN Extracted(Reply("tool_call_failed", <<m.invalid_tool_calls[1]>>), FALSE)
    ELSE IF ~Truthy(m.content)
    THEN EmptyAIContent(m)
    ELSE IF m.content.kind = "list"
    THEN Raised(LIST_STRIP_ERROR)
    ELSE IF strip(m.content.val) = <<>>
    THEN EmptyAIContent(m)
    ELSE Extracted(Reply("content", strip(m.content.val)), FALSE)

\* an extraction that deletes the session whenever it has no answer
ProcessLLMResponse_deleting(messages) ==
    IF messages # <<>> /\ messages[Len(messages)].type = "ai"
                      /\ Truthy(messages[Len(messages)].content)
    THEN Extracted(Reply("content", strip(messages[Len(messages)].content.val)), FALSE)
    ELSE Extracted(NOT_UNDERSTOOD, TRUE)

\* _process_llm_response(result, thread_id)
ProcessLLMResponse(messages) ==
    IF messages = <<>>
    THEN Extracted(ASSISTANT_EMPTY_REPLY, FALSE)
    ELSE LET last_message == messages[Len(messages)] IN
         IF last_message.type = "ai"
         THEN ProcessAIMessage(last_message)
         ELSE IF last_message.type = "tool" /\ Truthy(last_message.content)
         THEN Extracted(Reply("content", PyStr(last_message.content)), FALSE)
         ELSE Extracted(NOT_UNDERSTOOD, FALSE)

\* an error handling that does not look for the signature
ErrorReply_general(error_message) == GENERAL_ERROR

\* the reply chosen by _handle_langgraph_error from the error text
ErrorReply(error_message) ==
    IF \E i \in 1..Len(error_message) : error_message[i] = LIST_STRIP_ERROR[1]
    THEN TOKEN_LIMIT_ERROR
    ELSE GENERAL_ERROR

(***************************************************************************)
(* State                                                                   *)
(***************************************************************************)
VARIABLES
    now,                    \* datetime.now(), in seconds
    sessions,               \* the store: thread id -> Session object or NoSession
    LAST_CLEANUP_TIME,
    allocated,              \* number of Session objects constructed
    thread_id_of,           \* Session.thread_id
    last_accessed,          \* Session.last_accessed
    lock,                   \* Session.lock: the request holding it, or NoReq
    waiters,                \* Session.lock: requests queued in acquire()
    processing,             \* Session.processing
    processing_start_time,  \* Session.processing_start_time
    active_skills,          \* Session.active_skills
    removed_by,             \* how the object left the store: "live" while in it,
                            \* "error" by a turn's error handling, else "removed"
    group_chat_isolation,   \* plugin_config.plugin.group_chat_isolation
    enable_group,           \* plugin_config.plugin.enable_group
    enable_private,         \* plugin_config.plugin.enable_private
    pc,                     \* position of each handle_chat invocation
    event,                  \* its inbound event
    thread_id,              \* its local thread_id
    session,                \* its local session
    wait_start,             \* when it started waiting for session.lock
    response,               \* its local response
    swept,                  \* whether its get_or_create_session swept sessions away
    extract_in,             \* result["messages"] given to _process_llm_response
    extract_out,            \* what _process_llm_response makes of it
    SKILL_REGISTRY,         \* skills.SKILL_REGISTRY as _discover_skills left it
    config_builtin,         \* config-tools.toml: tools.builtin
    SKILL_STORE,            \* core_tools.SKILL_STORE
    active_tools,           \* handle_chat's local active_tools, given to the graph
    node,                   \* the node of the graph a turn is at
    tool_call,              \* the skill_setup call the model asked for
    invokes,                \* how often the chatbot node ran in the turn
    invoked,                \* what the chatbot node bound and injected last
    command_reply,          \* what the last skill load / unload command answered
    config_enabled,         \* config-tools.toml: tools.enabled
    max_context_messages,   \* config.llm.max_context_messages
    memory,                 \* Session.memory: the messages of the graph's state
    system_prompt,          \* whether config.llm.system_prompt is set
    llm,                    \* the global llm
    graph_builder           \* the global graph_builder

storeVars == <<sessions, LAST_CLEANUP_TIME, allocated>>
objVars == <<thread_id_of, last_accessed, lock, waiters, processing,
             processing_start_time, active_skills, removed_by>>
cfgVars == <<group_chat_isolation, enable_group, enable_private>>
reqVars == <<pc, event, thread_id, session, wait_start, response, swept>>
clockVars == <<now>>
extractVars == <<extract_in, extract_out>>
configVars == <<SKILL_REGISTRY, config_builtin, config_enabled, max_context_messages,
                system_prompt>>
llmVars == <<llm, graph_builder>>
envVars == <<configVars, llmVars>>
graphVars == <<SKILL_STORE, node, tool_call, invokes, invoked, memory>>
skillVars == <<envVars, graphVars, active_tools, command_reply>>
vars == <<clockVars, storeVars, objVars, cfgVars, reqVars, extractVars, skillVars>>

(***************************************************************************)
(* Skills and tools                                                        *)
(***************************************************************************)
Range(q) == {q[i] : i \in DOMAIN q}

\* the skills/ directory and config-tools.toml are not part of the sources:
\* skills that may be discovered, a name that never is, the tools a skill's
\* module exports, and the file's tools.builtin list
SkillNames == {"sgu", "weather"}
UnknownSkill == "unknown_skill"
MODULE_TOOLS ==
    [m \in {"skills.sgu.tools", "skills.weather.tools"} |->
        IF m = "skills.sgu.tools" THEN {"sgu_query"} ELSE {"get_weather"}]
Registries ==
    {[n \in {"default", "sgu", "weather"} |->
         IF n = "sgu" THEN {"skills.sgu.tools"}
         ELSE IF n = "weather" THEN {"skills.weather.tools"} ELSE {}],
     [n \in {"default", "sgu"} |->
         IF n = "sgu" THEN {"skills.sgu.tools"} ELSE {}]}
BuiltinConfigs == {<<>>, <<"websearch", "tavily_search">>}

\* skills.py 65-83: every discovered skill gets a description, a content and
\* an entry of the registry; the registry also has "default"
SKILL_DESCRIPTIONS == DOMAIN SKILL_REGISTRY \ {"default"}
SKILL_CONTENT == DOMAIN SKILL_REGISTRY \ {"default"}

\* a resolution that takes an unregistered name for a module of its own
get_tools_for_skills_unchecked(skills) ==
    (IF "default" \in DOMAIN SKILL_REGISTRY THEN SKILL_REGISTRY["default"] ELSE {})
        \cup UNION {IF skill \in DOMAIN SKILL_REGISTRY
                    THEN SKILL_REGISTRY[skill] ELSE {skill} : skill \in skills}

\* skills.py 107-117: the tool modules of the names in skills; the result is
\* list(set), a duplicate-free list in no particular order
get_tools_for_skills(skills) ==
    (IF "default" \in DOMAIN SKILL_REGISTRY THEN SKILL_REGISTRY["default"] ELSE {})
        \cup UNION {SKILL_REGISTRY[skill] :
                      skill \in {k \in skills : k \in DOMAIN SKILL_REGISTRY}}

\* skills.py 120-126: the skills whose content is joined into the knowledge text
get_content_for_skills(skills) == {skill \in skills : skill \in SKILL_CONTENT}

\* core_tools.py 206-213
CORE_TOOLS == {"websearch", "webfetch", "todowrite", "todoread", "grep", "skill_setup"}

\* tools.py 64
mandatory_tools == {"skill_setup"}

\* tools.py 99-111: the tools of an extension module; a module that cannot be
\* imported is reported and contributes nothing
module_tools(name) == IF name \in DOMAIN MODULE_TOOLS THEN MODULE_TOOLS[name] ELSE {}

\* a loader without the mandatory tools
load_tools_config_only(enabled_tools) ==
    (IF Range(config_builtin) = {} THEN CORE_TOOLS
     ELSE Range(config_builtin) \cap CORE_TOOLS)
        \cup UNION {module_tools(name) : name \in enabled_tools}

\* load_tools() called without enabled_tools
None == {"None"}

\* tools.py 53-113: the built-in tools named by the configuration and the
\* mandatory ones, then the tools of the modules in enabled_tools or, when
\* that is None, of the modules the configuration enables
load_tools(enabled_tools) ==
    LET configured == Range(config_builtin)
        builtin_tool_names ==
            configured \cup {t \in mandatory_tools : t \notin configured /\ t \in CORE_TOOLS}
        names == IF builtin_tool_names = {} THEN CORE_TOOLS ELSE builtin_tool_names
        enabled == IF enabled_tools = None THEN Range(config_enabled) ELSE enabled_tools
    IN  {name \in names : name \in CORE_TOOLS}
            \cup UNION {module_tools(name) : name \in enabled}

\* graph.py 183 and 272: the tools the tools node can execute
all_enabled_tools == load_tools(None)

\* core_tools.py 33-35, graph.py 201: SKILL_STORE has the key "default" or none
NoStore == [k \in {} |-> {}]
StoreOf(skills) == [k \in {"default"} |-> skills]
store_get(key) == IF key \in DOMAIN SKILL_STORE THEN SKILL_STORE[key] ELSE {}

\* the active skills of the thread "default" in a store
active_of(store) == IF "default" \in DOMAIN store THEN store["default"] ELSE {}

\* a tool that enables whatever name it is given
skill_setup_any_name(action, skill_name) ==
    IF action = "enable" THEN StoreOf(store_get("default") \cup {skill_name})
    ELSE IF action = "disable" THEN StoreOf(store_get("default") \ {skill_name})
    ELSE StoreOf(store_get("default"))

\* core_tools.py 21-46: SKILL_STORE after the tool call
skill_setup(action, skill_name) ==
    LET key == "default"
        current == store_get(key)
    IN  IF action = "enable"
        THEN IF skill_name \notin SKILL_DESCRIPTIONS
             THEN StoreOf(current)
             ELSE StoreOf(current \cup {skill_name})
        ELSE IF action = "disable"
        THEN StoreOf(current \ {skill_name})
        ELSE StoreOf(current)

\* a response of the model that asks for a skill_setup call, and the calls of
\* a message
AICall(call) ==
    [type |-> "ai", content |-> StrContent(<<>>), invalid_tool_calls |-> <<>>,
     finish_reason |-> "STOP", tool_calls |-> <<call>>]
has_tool_calls(m) == "tool_calls" \in DOMAIN m /\ m.tool_calls # <<>>

\* core_tools.py 39-46: the strings skill_setup returns; the list of the
\* available skills at the end of the first is left out
SETUP_NOT_FOUND(skill_name) == <<"Error: Skill '", skill_name, "' not found. Available: ">>
SETUP_ENABLED(skill_name) ==
    <<"Skill '", skill_name, "' enabled. Knowledge will be injected in the next turn.">>
SETUP_DISABLED(skill_name) == <<"Skill '", skill_name, "' disabled.">>
SETUP_BAD_ACTION == <<"Error: Action must be 'enable' or 'disable'.">>

\* core_tools.py 37-46: what skill_setup returns
skill_setup_returns(action, skill_name) ==
    IF action = "enable"
    THEN IF skill_name \notin SKILL_DESCRIPTIONS
         THEN SETUP_NOT_FOUND(skill_name)
         ELSE SETUP_ENABLED(skill_name)
    ELSE IF action = "disable"
    THEN SETUP_DISABLED(skill_name)
    ELSE SETUP_BAD_ACTION

\* the tool message of an enabled skill sgu
TOOL_RESULT == ToolMsg(StrContent(SETUP_ENABLED("sgu")))

\* graph.py 224-252: the system prompt and the question / answer pairs of
\* config.llm, here one pair
SystemMsg == [type |-> "system", content |-> StrContent(<<"s">>),
              invalid_tool_calls |-> <<>>, finish_reason |-> "none"]
fixed_messages ==
    (IF system_prompt THEN <<SystemMsg>> ELSE <<>>)
        \o <<HumanMsg(StrContent(<<"q">>)), AIMsg(StrContent(<<"p">>), <<>>, "STOP")>>

\* trim_messages, end_on: messages after the last one of a type in types go
RECURSIVE drop_tail(_, _)
drop_tail(messages, types) ==
    IF messages # <<>> /\ messages[Len(messages)].type \notin types
    THEN drop_tail(SubSeq(messages, 1, Len(messages) - 1), types)
    ELSE messages

\* trim_messages, start_on: messages before the first one of a type in types go
RECURSIVE drop_head(_, _)
drop_head(messages, types) ==
    IF messages # <<>> /\ Head(messages).type \notin types
    THEN drop_head(Tail(messages), types)
    ELSE messages

\* the last n of the messages; token_counter = len counts every message as one
last_messages(messages, n) ==
    IF Len(messages) <= n THEN messages
    ELSE SubSeq(messages, Len(messages) - n + 1, Len(messages))

\* a trimmer without start_on
trimmer_any_start(messages) ==
    last_messages(drop_tail(messages, {"human", "tool"}), max_context_messages)

\* graph.py 185-193: trim_messages(strategy="last", max_tokens =
\* max_context_messages, token_counter=len, include_system=True,
\* allow_partial=False, start_on="human", end_on=("human", "tool")); the
\* state holds no system message
trimmer(messages) ==
    drop_head(last_messages(drop_tail(messages, {"human", "tool"}),
                            max_context_messages),
              {"human"})

\* a chatbot node that returns the context it built with the response
chatbot_returns_context(ai_message) == fixed_messages \o <<ai_message>>

\* graph.py 266: the messages the chatbot node returns after the model answered
chatbot_returns(ai_message) == <<ai_message>>

\* a condition that sends every message of the model to the tools node
tools_condition_any_ai(messages) ==
    IF messages # <<>> /\ messages[Len(messages)].type = "ai"
    THEN "tools" ELSE "end"

\* langgraph tools_condition: where the graph goes after the chatbot node
tools_condition(messages) ==
    IF messages # <<>> /\ has_tool_calls(messages[Len(messages)])
    THEN "tools" ELSE "end"

\* graph.py 195-213 and 225-247: what the chatbot node of a turn of thread tid
\* binds to the model and writes into the system prompt: the skills the
\* catalog shows as active and those whose knowledge is added, both only when
\* a system prompt is configured
chatbot(tid) ==
    LET key == "default"
        skills == store_get(key)
    IN  [tools |-> load_tools(get_tools_for_skills(skills)),
         statuses |-> IF system_prompt
                      THEN {name \in SKILL_DESCRIPTIONS : name \in skills} ELSE {},
         knowledge |-> IF system_prompt THEN get_content_for_skills(skills) ELSE {}]

NoTools == {"none"}
NoCall == [action |-> "none", skill_name |-> "none"]
NoInvoke == [tools |-> NoTools, statuses |-> {}, knowledge |-> {}, window |-> <<>>]

(***************************************************************************)
(* Session                                                                 *)
(*                                                                         *)
(* Session.memory and Session.graph belong to the object: memory is made   *)
(* by the constructor and never assigned again, the graph is compiled on   *)
(* that memory.  A turn runs on the conversation memory of the object it   *)
(* holds, so the model identifies the memory with the object.              *)
(***************************************************************************)
\* an is_expired that takes every session not accessed this instant for expired
is_expired_early(s, t) == t - last_accessed[s] > 0

\* Session.is_expired
is_expired(s, t) == t - last_accessed[s] > CLEANUP_INTERVAL

\* an is_processing_timeout that already fires at the limit
is_processing_timeout_at_limit(s, t) ==
    processing[s] /\ processing_start_time[s] # NoTime
        /\ t - processing_start_time[s] >= PROCESSING_TIMEOUT

\* Session.is_processing_timeout
is_processing_timeout(s, t) ==
    IF ~processing[s] \/ processing_start_time[s] = NoTime
    THEN FALSE
    ELSE t - processing_start_time[s] > PROCESSING_TIMEOUT

\* Session.try_acquire_lock: the result, and the flag and start time it leaves
try_acquire_lock(s, t) ==
    IF processing[s]
    THEN IF is_processing_timeout(s, t)
         THEN [ok |-> TRUE, processing |-> FALSE, start |-> NoTime]
         ELSE [ok |-> FALSE, processing |-> processing[s],
               start |-> processing_start_time[s]]
    ELSE [ok |-> TRUE, processing |-> processing[s],
          start |-> processing_start_time[s]]

\* a start_processing that records no start time
start_processing_untimed(t) == [processing |-> TRUE, start |-> NoTime, accessed |-> t]

\* Session.start_processing: flag, start time and last_accessed
start_processing(t) == [processing |-> TRUE, start |-> t, accessed |-> t]

\* an end_processing that forgets to clear the flag
end_processing_flag_kept(t) == [processing |-> TRUE, start |-> NoTime, accessed |-> t]

\* Session.end_processing: flag, start time and last_accessed
end_processing(t) == [processing |-> FALSE, start |-> NoTime, accessed |-> t]

(***************************************************************************)
(* The session store                                                       *)
(***************************************************************************)
Live == {k \in ThreadIds : sessions[k] # NoSession}

\* a cleanup_sessions that deletes nothing
expired_keys_none(t) == {}

\* cleanup_sessions: the keys it deletes
expired_keys(t) == {k \in Live : is_expired(sessions[k], t)}

\* a get_or_create_session that sweeps on every call
sweep_due_always(t) == TRUE

\* whether get_or_create_session runs the sweep first
sweep_due(t) == t - LAST_CLEANUP_TIME > CLEANUP_INTERVAL

\* the store after removing the keys in gone
Without(gone) == [k \in ThreadIds |-> IF k \in gone THEN NoSession ELSE sessions[k]]

\* removed_by after removing the keys in gone for the reason why
Gone(gone, why) ==
    [s \in Sid |-> IF \E k \in gone : sessions[k] = s THEN why ELSE removed_by[s]]

\* a deletion that does nothing
delete_nothing(tid) == {}

\* the keys removed by "if thread_id in sessions: del sessions[thread_id]"
delete_if_present(tid) == {k \in Live : k = tid}

(***************************************************************************)
(* Thread ids                                                              *)
(***************************************************************************)
\* lines 309-316: the thread id of an event under the isolation flag
derive_thread_id(ev, isolation) ==
    IF ev.kind = "group"
    THEN IF isolation
         THEN <<"group", ev.group_id, ev.user_id>>
         ELSE <<"group", ev.group_id>>
    ELSE <<"private", ev.user_id>>

(***************************************************************************)
(* Results a turn can end with                                             *)
(***************************************************************************)
HUMAN == HumanMsg(StrContent(<<"q">>))

\* result["messages"] of graph.ainvoke: the human message and what follows it
TurnResults ==
    { <<HUMAN, AIMsg(StrContent(<<" ", "a">>), <<>>, "STOP")>>,
      <<HUMAN, AIMsg(StrContent(<<>>), <<"e1", "e2">>, "STOP")>>,
      <<HUMAN, AIMsg(StrContent(<<>>), <<>>, "STOP")>>,
      <<HUMAN, AIMsg(StrContent(<<" ">>), <<>>, "SAFETY")>>,
      <<HUMAN, AIMsg(ListContent(<<"p">>), <<>>, "STOP")>>,
      <<HUMAN>> }

\* str(e) of an exception raised by graph.ainvoke
ErrorTexts == { <<"timed out">>, <<"x: ", LIST_STRIP_ERROR[1]>> }

\* str(e) of the FinishedException raised by chat_handler.finish
FINISHED_EXCEPTION == <<"FinishedException">>

(***************************************************************************)
(* Initial state                                                           *)
(***************************************************************************)
NoOutcome == Raised(<<"not run">>)

\* the plugin as loaded: an empty store, and a configuration read from the
\* file, with group isolation on or off and the chat switched on or off
InitManager ==
    /\ now = 0
    /\ sessions = [k \in ThreadIds |-> NoSession]
    /\ LAST_CLEANUP_TIME = 0
    /\ allocated = 0
    /\ thread_id_of = [s \in Sid |-> NoThread]
    /\ last_accessed = [s \in Sid |-> NoTime]
    /\ lock = [s \in Sid |-> NoReq]
    /\ waiters = [s \in Sid |-> <<>>]
    /\ processing = [s \in Sid |-> FALSE]
    /\ processing_start_time = [s \in Sid |-> NoTime]
    /\ active_skills = [s \in Sid |-> DEFAULT_SKILLS]
    /\ removed_by = [s \in Sid |-> "live"]
    /\ group_chat_isolation \in BOOLEAN
    /\ enable_group \in BOOLEAN
    /\ enable_private = enable_group
    /\ pc = [r \in Req |-> "idle"]
    /\ event = [r \in Req |-> NoEvent]
    /\ thread_id = [r \in Req |-> NoThread]
    /\ session = [r \in Req |-> NoSession]
    /\ wait_start = [r \in Req |-> NoTime]
    /\ response = [r \in Req |-> NoReply]
    /\ swept = [r \in Req |-> FALSE]

\* config.llm.model
DEFAULT_MODEL == <<"m">>

\* str.lower on the letters of the names and texts
lower_char(c) ==
    CASE c = "S" -> "s" [] c = "G" -> "g" [] c = "U" -> "u" [] c = "M" -> "m" [] OTHER -> c
lower(text) == [i \in 1..Len(text) |-> lower_char(text[i])]

\* graph.py 78-169: the model object for a name, which get_llm lower-cases;
\* the class it picks by the name is left out
get_llm(model) == [model |-> lower(model)]

\* graph.py 179-279: the graph builder, whose chatbot node calls the llm it
\* was built with
build_graph(an_llm) == [llm |-> an_llm]

\* the graph before any turn, with the resources initialize_resources made
InitGraph ==
    /\ SKILL_STORE = NoStore
    /\ active_tools = [r \in Req |-> NoTools]
    /\ node = [r \in Req |-> "chatbot"]
    /\ tool_call = [r \in Req |-> NoCall]
    /\ invokes = [r \in Req |-> 0]
    /\ invoked = [r \in Req |-> NoInvoke]
    /\ command_reply = NoReply
    /\ memory = [s \in Sid |-> <<>>]
    /\ llm = get_llm(DEFAULT_MODEL)
    /\ graph_builder = build_graph(llm)

\* a configuration that enables no extension module, lets ten messages
\* through the trimmer and has a system prompt
InitConfig ==
    /\ config_enabled = <<>>
    /\ max_context_messages = 10
    /\ system_prompt = TRUE

\* an installation with the skills sgu and weather and no tools.builtin list
InitSkills ==
    /\ SKILL_REGISTRY =
           [n \in {"default", "sgu", "weather"} |->
               IF n = "sgu" THEN {"skills.sgu.tools"}
               ELSE IF n = "weather" THEN {"skills.weather.tools"} ELSE {}]
    /\ config_builtin = <<>>
    /\ InitConfig
    /\ InitGraph

Init ==
    /\ InitManager
    /\ InitSkills
    /\ extract_in = <<>>
    /\ extract_out = NoOutcome

(***************************************************************************)
(* handle_chat                                                             *)
(***************************************************************************)
\* a switch that is never off
Disabled_never(ev) == FALSE

\* lines 291-298: the group / private switch
Disabled(ev) ==
    \/ ev.kind = "group" /\ ~enable_group
    \/ ev.kind # "group" /\ ~enable_private

\* lines 254-317: a message arrives; when its kind is switched off it is
\* answered with the disabled message, otherwise its thread id is derived
Start(r, ev) ==
    /\ pc[r] = "idle"
    /\ IF Disabled(ev)
       THEN /\ pc' = [pc EXCEPT ![r] = "done"]
            /\ response' = [response EXCEPT ![r] = DISABLED]
            /\ UNCHANGED <<event, thread_id>>
       ELSE /\ pc' = [pc EXCEPT ![r] = "derived"]
            /\ event' = [event EXCEPT ![r] = ev]
            /\ thread_id' = [thread_id EXCEPT ![r] =
                                derive_thread_id(ev, group_chat_isolation)]
            /\ UNCHANGED response
    /\ UNCHANGED <<clockVars, storeVars, objVars, cfgVars, session,
                   wait_start, swept, extractVars, skillVars>>

\* an acquire() that does not look at the holder of the lock
lock_is_free_unheld(s) == waiters[s] = <<>>

\* line 336: asyncio.Lock.acquire() returns at once on a lock that is neither
\* held nor queued for
lock_is_free(s) == lock[s] = NoReq /\ waiters[s] = <<>>

\* the handler returns: its locals are gone, its reply stays as the output
Return(r) ==
    /\ event' = [event EXCEPT ![r] = NoEvent]
    /\ thread_id' = [thread_id EXCEPT ![r] = NoThread]
    /\ session' = [session EXCEPT ![r] = NoSession]
    /\ wait_start' = [wait_start EXCEPT ![r] = NoTime]
    /\ swept' = [swept EXCEPT ![r] = FALSE]

\* lines 345-368 (turn begins) and, when try_acquire_lock refuses, lines 347-350
\* with 373-378: finish() raises FinishedException inside the try block, the
\* `except Exception` clause hands it to _handle_langgraph_error, and the finally
\* clause ends processing and releases the lock.  store and rb are the store and
\* removed_by as get_or_create_session left them.
BeginTurn(r, s, store, rb) ==
    LET a == try_acquire_lock(s, now)
        b == start_processing(now)
        e == end_processing(now)
        tid == thread_id[r]
        gone == {k \in ThreadIds : k = tid /\ store[k] # NoSession}
    IN  IF a.ok
        THEN /\ lock' = [lock EXCEPT ![s] = r]
             /\ processing' = [processing EXCEPT ![s] = b.processing]
             /\ processing_start_time' = [processing_start_time EXCEPT ![s] = b.start]
             /\ last_accessed' = [last_accessed EXCEPT ![s] = b.accessed]
             /\ sessions' = store
             /\ removed_by' = rb
             /\ pc' = [pc EXCEPT ![r] = "invoking"]
             /\ active_tools' = [active_tools EXCEPT ![r] =
                                    get_tools_for_skills(Range(active_skills[s]))]
             /\ UNCHANGED response
        ELSE /\ lock' = [lock EXCEPT ![s] = NoReq]
             /\ processing' = [processing EXCEPT ![s] = e.processing]
             /\ processing_start_time' = [processing_start_time EXCEPT ![s] = e.start]
             /\ last_accessed' = [last_accessed EXCEPT ![s] = e.accessed]
             /\ sessions' = [k \in ThreadIds |-> IF k \in gone THEN NoSession ELSE store[k]]
             /\ removed_by' = [x \in Sid |-> IF \E k \in gone : store[k] = x
                                             THEN "error" ELSE rb[x]]
             /\ pc' = [pc EXCEPT ![r] = "done"]
             /\ response' = [response EXCEPT ![r] = ErrorReply(FINISHED_EXCEPTION)]
             /\ UNCHANGED active_tools

\* get_or_create_session(tid), lines 130-135: the keys its sweep deletes
swept_keys == IF sweep_due(now) THEN expired_keys(now) ELSE {}

\* a get_or_create_session that never looks the thread id up
get_or_create_always_new(tid) == allocated + 1

\* get_or_create_session(tid), lines 137-142: the session it returns, the one
\* stored under tid after the sweep or else a new object
get_or_create_session(tid) ==
    IF Without(swept_keys)[tid] # NoSession
    THEN Without(swept_keys)[tid]
    ELSE allocated + 1

\* get_or_create_session(tid) returning s: what it does to the store and to
\* the objects, apart from refreshing last_accessed of s
GetOrCreate(tid, s) ==
    /\ s = get_or_create_session(tid)
    /\ s \in Sid
    /\ LAST_CLEANUP_TIME' = IF sweep_due(now) THEN now ELSE LAST_CLEANUP_TIME
    /\ allocated' = IF s = allocated + 1 THEN s ELSE allocated
    /\ thread_id_of' = [thread_id_of EXCEPT ![s] = tid]

\* lines 326-343: get_or_create_session (with the sweep when it is due), then
\* session.lock.acquire(): on a free lock without waiters it returns at once and
\* the turn begins in the same step; otherwise the request queues on the lock
GetSession(r) ==
    /\ pc[r] = "derived"
    /\ LET tid == thread_id[r]
           s == get_or_create_session(tid)
           store == [Without(swept_keys) EXCEPT ![tid] = s]
           rb == Gone(swept_keys, "removed")
       IN  /\ GetOrCreate(tid, s)
           /\ session' = [session EXCEPT ![r] = s]
           /\ swept' = [swept EXCEPT ![r] = swept_keys # {}]
           /\ UNCHANGED active_skills
           /\ IF lock_is_free(s)
              THEN /\ BeginTurn(r, s, store, rb)
                   /\ UNCHANGED <<waiters, wait_start>>
              ELSE /\ sessions' = store
                   /\ removed_by' = rb
                   /\ last_accessed' = [last_accessed EXCEPT ![s] = now]
                   /\ waiters' = [waiters EXCEPT ![s] = Append(@, r)]
                   /\ wait_start' = [wait_start EXCEPT ![r] = now]
                   /\ pc' = [pc EXCEPT ![r] = "waiting"]
                   /\ UNCHANGED <<lock, processing, processing_start_time, response,
                                  active_tools>>
    /\ UNCHANGED <<clockVars, cfgVars, event, thread_id, extractVars, envVars,
                   graphVars, command_reply>>

\* line 336: the lock was released and this request is the first in its queue
AcquireAfterWait(r) ==
    /\ pc[r] = "waiting"
    /\ LET s == session[r]
       IN  /\ lock[s] = NoReq
           /\ waiters[s] # <<>>
           /\ Head(waiters[s]) = r
           /\ waiters' = [waiters EXCEPT ![s] = Tail(@)]
           /\ BeginTurn(r, s, sessions, removed_by)
    /\ wait_start' = [wait_start EXCEPT ![r] = NoTime]
    /\ UNCHANGED <<clockVars, LAST_CLEANUP_TIME, allocated, thread_id_of,
                   active_skills, cfgVars, event, thread_id, session, swept,
                   extractVars, envVars, graphVars, command_reply>>

\* queue q without request r
Dequeue(q, r) == SelectSeq(q, LAMBDA x : x # r)

\* lines 341-343: wait_for gives up after one second; the busy reply
LockTimeout(r) ==
    /\ pc[r] = "waiting"
    /\ now - wait_start[r] >= LOCK_TIMEOUT
    /\ waiters' = [waiters EXCEPT ![session[r]] = Dequeue(@, r)]
    /\ response' = [response EXCEPT ![r] = SESSION_BUSY]
    /\ pc' = [pc EXCEPT ![r] = "done"]
    /\ Return(r)
    /\ UNCHANGED <<clockVars, storeVars, thread_id_of, last_accessed, lock,
                   processing, processing_start_time, active_skills, removed_by,
                   cfgVars, extractVars, skillVars>>

\* lines 375-378 after the reply was chosen: the keys in gone leave the store,
\* the finally clause ends processing and releases the lock
EndTurn(r, gone, reply) ==
    LET s == session[r]
        e == end_processing(now)
    IN  /\ sessions' = Without(gone)
        /\ removed_by' = Gone(gone, "error")
        /\ processing' = [processing EXCEPT ![s] = e.processing]
        /\ processing_start_time' = [processing_start_time EXCEPT ![s] = e.start]
        /\ last_accessed' = [last_accessed EXCEPT ![s] = e.accessed]
        /\ lock' = [lock EXCEPT ![s] = NoReq]
        /\ response' = [response EXCEPT ![r] = reply]
        /\ pc' = [pc EXCEPT ![r] = "done"]
        /\ Return(r)
        /\ UNCHANGED <<clockVars, LAST_CLEANUP_TIME, allocated, thread_id_of,
                       waiters, active_skills, cfgVars, extractVars, skillVars>>

\* _handle_langgraph_error: the session of the thread id is deleted
HandleLanggraphError(r, error_message) ==
    EndTurn(r, delete_if_present(thread_id[r]), ErrorReply(error_message))

\* lines 362-378: graph.ainvoke returns result and the reply is extracted
TurnReturns(r, messages) ==
    /\ pc[r] = "invoking"
    /\ LET x == ProcessLLMResponse(messages)
       IN  IF x.raised # <<>>
           THEN HandleLanggraphError(r, x.raised)
           ELSE EndTurn(r, IF x.delete THEN delete_if_present(thread_id[r]) ELSE {},
                        x.reply)

\* lines 362-378: graph.ainvoke raises
TurnRaises(r, error_message) ==
    /\ pc[r] = "invoking"
    /\ HandleLanggraphError(r, error_message)

(***************************************************************************)
(* handle_chat_command                                                     *)
(***************************************************************************)
handleVars == <<pc, event, thread_id, session, wait_start, response, swept>>

\* the store is emptied for the reason why
ClearStore(why) ==
    /\ sessions' = Without(Live)
    /\ removed_by' = Gone(Live, why)

\* lines 509-513: chat clear
Clear ==
    /\ ClearStore("removed")
    /\ UNCHANGED <<clockVars, LAST_CLEANUP_TIME, allocated, thread_id_of,
                   last_accessed, lock, waiters, processing, processing_start_time,
                   active_skills, cfgVars, handleVars, extractVars, skillVars>>

\* lines 493-503: chat model <name> with the configured name, once the new
\* model and graph were built; like the other commands here without its reply
SwitchModel ==
    /\ ClearStore("removed")
    /\ llm' = get_llm(DEFAULT_MODEL)
    /\ graph_builder' = build_graph(llm')
    /\ UNCHANGED <<clockVars, LAST_CLEANUP_TIME, allocated, thread_id_of,
                   last_accessed, lock, waiters, processing, processing_start_time,
                   active_skills, cfgVars, handleVars, extractVars, configVars,
                   graphVars, active_tools, command_reply>>

\* the names an admin gives to chat model, and how the command goes: get_llm
\* or build_graph may raise
ModelNames == {<<"m">>, <<"M">>, <<"g">>}
Outcomes == {"ok", "get_llm raises", "build_graph raises"}
MODEL_SWITCHED(model_name) == Reply("model_switched", model_name)
MODEL_SWITCH_FAILED == Reply("model_switch_failed", <<>>)

\* a switch that stores the new model before the graph is built
switched_early(model_name, outcome) ==
    IF outcome = "get_llm raises" THEN <<llm, graph_builder>>
    ELSE IF outcome = "build_graph raises" THEN <<get_llm(model_name), graph_builder>>
    ELSE <<get_llm(model_name), build_graph(get_llm(model_name))>>

\* lines 493-499: llm and graph_builder after the command
switched(model_name, outcome) ==
    IF outcome = "ok"
    THEN LET new_llm == get_llm(model_name)
             new_graph_builder == build_graph(new_llm)
         IN  <<new_llm, new_graph_builder>>
    ELSE <<llm, graph_builder>>

\* lines 481-507: chat model <name>; get_llm and build_graph have no await
\* that suspends, so the command runs in one piece up to its reply
ModelCommand(model_name, outcome) ==
    /\ llm' = switched(model_name, outcome)[1]
    /\ graph_builder' = switched(model_name, outcome)[2]
    /\ IF outcome = "ok"
       THEN /\ ClearStore("removed")
            /\ command_reply' = MODEL_SWITCHED(model_name)
       ELSE /\ command_reply' = MODEL_SWITCH_FAILED
            /\ UNCHANGED <<sessions, removed_by>>
    /\ UNCHANGED <<clockVars, LAST_CLEANUP_TIME, allocated, thread_id_of,
                   last_accessed, lock, waiters, processing, processing_start_time,
                   active_skills, cfgVars, handleVars, extractVars, configVars,
                   graphVars, active_tools>>

\* a tid of the skill command that ignores the isolation flag
skill_thread_id_shared(ev, isolation) ==
    IF ev.kind = "group" THEN <<"group", ev.group_id>> ELSE <<"private", ev.user_id>>

\* lines 589-596: the tid the skill command derives for its event
skill_thread_id(ev, isolation) ==
    IF ev.kind = "group"
    THEN IF isolation
         THEN <<"group", ev.group_id, ev.user_id>>
         ELSE <<"group", ev.group_id>>
    ELSE IF ev.kind = "private"
    THEN <<"private", ev.user_id>>
    ELSE NoThread

\* lines 589-606: chat skill list, sent from the context of ev
SkillList(ev) ==
    /\ LET tid == skill_thread_id(ev, group_chat_isolation)
           s == get_or_create_session(tid)
       IN  /\ GetOrCreate(tid, s)
           /\ sessions' = [Without(swept_keys) EXCEPT ![tid] = s]
           /\ removed_by' = Gone(swept_keys, "removed")
           /\ last_accessed' = [last_accessed EXCEPT ![s] = now]
    /\ UNCHANGED <<clockVars, lock, waiters, processing, processing_start_time,
                   active_skills, cfgVars, handleVars, extractVars, skillVars>>

(***************************************************************************)
(* Time                                                                    *)
(***************************************************************************)
\* a request that the event loop resumes without time passing: the first
\* waiter of a free lock
Woken(r) ==
    /\ pc[r] = "waiting"
    /\ lock[session[r]] = NoReq
    /\ waiters[session[r]] # <<>>
    /\ Head(waiters[session[r]]) = r

\* the clock may advance by d seconds: the model lets it advance MaxTicks
\* times by the lock timeout and MaxSweeps times by the cleanup interval
TickAllowed(d) ==
    \/ d = LOCK_TIMEOUT /\ now % CLEANUP_INTERVAL < MaxTicks * LOCK_TIMEOUT
    \/ d = CLEANUP_INTERVAL /\ now \div CLEANUP_INTERVAL < MaxSweeps

\* d seconds pass; no wait_for timer is overrun and no woken waiter is kept
Tick(d) ==
    /\ TickAllowed(d)
    /\ \A r \in Req : pc[r] = "waiting" => now + d <= wait_start[r] + LOCK_TIMEOUT
    /\ \A r \in Req : ~Woken(r)
    /\ now' = now + d
    /\ UNCHANGED <<storeVars, objVars, cfgVars, handleVars, extractVars, skillVars>>

(***************************************************************************)
(* Specification of the session manager                                    *)
(***************************************************************************)
Next ==
    \/ \E r \in Req, ev \in Events : Start(r, ev)
    \/ \E r \in Req : GetSession(r)
    \/ \E r \in Req : AcquireAfterWait(r)
    \/ \E r \in Req : LockTimeout(r)
    \/ \E r \in Req, messages \in TurnResults : TurnReturns(r, messages)
    \/ \E r \in Req, error_message \in ErrorTexts : TurnRaises(r, error_message)
    \/ Clear
    \/ SwitchModel
    \/ \E ev \in Events : SkillList(ev)
    \/ \E d \in {LOCK_TIMEOUT, CLEANUP_INTERVAL} : Tick(d)

Spec == Init /\ [][Next]_vars

(***************************************************************************)
(* Specification of the reply extraction on its own                        *)
(***************************************************************************)
Chars == {" ", "a"}
Strings == UNION {[1..n -> Chars] : n \in 0..MaxLen}
Contents == {StrContent(x) : x \in Strings} \cup {ListContent(<<>>), ListContent(<<"p">>)}
InvalidToolCalls == {<<>>, <<"e1">>, <<"e2", "e1">>}
FinishReasons == {"STOP", "SAFETY"}

Messages ==
    {AIMsg(c, i, f) : c \in Contents, i \in InvalidToolCalls, f \in FinishReasons}
      \cup {ToolMsg(c) : c \in Contents}
      \cup {HumanMsg(c) : c \in Contents}

\* result["messages"]: only its last message is looked at
ExtractInputs == {<<>>} \cup {<<m>> : m \in Messages} \cup {<<HUMAN, m>> : m \in Messages}

ExtractInit ==
    /\ InitManager
    /\ InitSkills
    /\ extract_in \in ExtractInputs
    /\ extract_out = NoOutcome

\* _process_llm_response is applied to the result
Extract ==
    /\ extract_out = NoOutcome
    /\ extract_out' = ProcessLLMResponse(extract_in)
    /\ UNCHANGED <<extract_in, clockVars, storeVars, objVars, cfgVars, handleVars,
                   skillVars>>

ExtractNext == Extract

ExtractSpec == ExtractInit /\ [][ExtractNext]_vars

(***************************************************************************)
(* Properties                                                              *)
(***************************************************************************)
Last(q) == q[Len(q)]

\* a step in which request r ends the turn it was executing
TurnEnds(r) == pc[r] = "invoking" /\ pc'[r] = "done"

\* a step in which request r starts executing a turn
TurnStarts(r) == pc[r] # "invoking" /\ pc'[r] = "invoking"

\* C1: in every reachable state at most one turn is executing for any given
\* thread id.
C1_OneTurnPerThread ==
    \A r1, r2 \in Req :
        r1 # r2 /\ pc[r1] = "invoking" /\ pc[r2] = "invoking"
            => thread_id[r1] # thread_id[r2]

\* C2: a request made for a session whose processing flag has then been set
\* for more than 60 seconds by a turn that never finished is not answered busy.
C2_StaleFlagRecovered ==
    [][\A r \in Req :
          /\ pc[r] = "waiting"
          /\ processing[session[r]]
          /\ wait_start[r] - processing_start_time[session[r]] > PROCESSING_TIMEOUT
          /\ pc'[r] = "done"
          => response'[r] # SESSION_BUSY]_vars

\* C3: when a turn that acquired the per-session lock ends, on whatever path,
\* its session has processing false, no start time, last_accessed refreshed
\* and a free lock; and a lock is only ever held by a request executing a turn.
C3_Released(r) ==
    LET s == session[r]
    IN  /\ ~processing'[s]
        /\ processing_start_time'[s] = NoTime
        /\ last_accessed'[s] = now'
        /\ lock'[s] = NoReq

C3_LockHeldOnlyInTurn ==
    \A s \in Sid :
        lock[s] # NoReq => pc[lock[s]] = "invoking" /\ session[lock[s]] = s

C3_ReleaseOnEveryExit ==
    /\ []C3_LockHeldOnlyInTurn
    /\ [][\A r \in Req : TurnEnds(r) => C3_Released(r)]_vars

\* the exception path of a turn was taken and no lock is left held
C3_Witness ==
    /\ \E r \in Req : pc[r] = "done" /\ response[r] = GENERAL_ERROR
    /\ allocated > 0
    /\ \A s \in Sid : lock[s] = NoReq /\ ~processing[s]

\* C4 as claimed: of two turns issued concurrently for the same id exactly one
\* proceeds to Invoke; the one that found the lock taken is answered busy.
C4_WaiterNeverInvokes ==
    [][\A r \in Req : pc[r] = "waiting" => pc'[r] # "invoking"]_vars

\* C4 as amended: two requests holding the same Session never execute a turn
\* on it at the same time; the one that found the lock taken waits at most
\* one second, and then either starts its own turn, the lock being free and
\* the request first in its queue, or is answered busy one second after its
\* acquire attempt.
C4_OneTurnPerSession ==
    \A r1, r2 \in Req :
        r1 # r2 /\ pc[r1] = "invoking" /\ pc[r2] = "invoking"
            => session[r1] # session[r2]

C4_WaitBounded ==
    \A r \in Req : pc[r] = "waiting" => now - wait_start[r] <= LOCK_TIMEOUT

C4_WaiterStep(r) ==
    /\ pc'[r] \in {"waiting", "invoking", "done"}
    /\ pc'[r] = "invoking" => lock[session[r]] = NoReq /\ Head(waiters[session[r]]) = r
    /\ pc'[r] = "done" => /\ response'[r] = SESSION_BUSY
                          /\ now - wait_start[r] = LOCK_TIMEOUT

C4_SerializedOrBusy ==
    /\ [](C4_OneTurnPerSession /\ C4_WaitBounded)
    /\ [][\A r \in Req : pc[r] = "waiting" => C4_WaiterStep(r)]_vars

\* the first turn has ended with a reply within the second and the request
\* that waited for the lock is about to start its own turn
C4_Witness ==
    \E r \in Req :
        /\ Woken(r)
        /\ now - wait_start[r] < LOCK_TIMEOUT
        /\ \E q \in Req : q # r /\ pc[q] = "done" /\ response[q].tag = "content"

\* the result is a model message with empty or whitespace-only content and
\* no invalid tool call
EmptyReply(messages) ==
    /\ messages # <<>>
    /\ Last(messages).type = "ai"
    /\ Last(messages).invalid_tool_calls = <<>>
    /\ \A i \in 1..Len(Last(messages).content.val) :
          Last(messages).content.kind = "str" /\ Last(messages).content.val[i] = " "

\* C5: when a turn for thread id T ends with an empty reply, a safety-blocked
\* reply or an exception of the pipeline, the store has no entry for T when
\* the handler has finished its error handling.
C5_ErrorRemovesEntry ==
    [][\A r \in Req :
          /\ TurnEnds(r)
          /\ \/ \E m \in TurnResults : EmptyReply(m) /\ TurnReturns(r, m)
             \/ \E e \in ErrorTexts : TurnRaises(r, e)
          => sessions'[thread_id[r]] = NoSession]_vars

\* a turn ended in an error reply while its thread id had an entry
C5_Witness ==
    /\ \E r \in Req : pc[r] = "done" /\ response[r] \in {SAFETY_BLOCKED, GENERAL_ERROR}
    /\ \E s \in Sid : removed_by[s] = "error"

\* C6: a turn never starts executing on a Session that an error handling has
\* deleted from the store.
C6_FreshSessionAfterError ==
    [][\A r \in Req : TurnStarts(r) => removed_by'[session'[r]] # "error"]_vars

\* what a request that goes on to wait for the lock may change: last_accessed
\* of its session, which it found in the store, and what the sweep removes
C7_WaitStepSession(r) ==
    LET s == session'[r]
    IN  /\ sessions[thread_id[r]] = s
        /\ sessions'[thread_id[r]] = s
        /\ last_accessed' = [last_accessed EXCEPT ![s] = now]
        /\ UNCHANGED <<allocated, thread_id_of, lock, processing,
                       processing_start_time, active_skills, cfgVars>>

C7_WaitStepSweep ==
    \A k \in ThreadIds :
        sessions'[k] # sessions[k] =>
            /\ sessions'[k] = NoSession
            /\ now - LAST_CLEANUP_TIME > CLEANUP_INTERVAL
            /\ now - last_accessed[sessions[k]] > CLEANUP_INTERVAL

C7_TimeoutStep(r) ==
    /\ response'[r] = SESSION_BUSY
    /\ UNCHANGED <<clockVars, storeVars, thread_id_of, last_accessed, lock,
                   processing, processing_start_time, active_skills, removed_by,
                   cfgVars>>

\* C7 as claimed: a request that ends with the busy outcome has changed no
\* state other than last_accessed; in particular the store has the members it
\* had.
C7_BusyChangesNothing ==
    [][\A r \in Req :
          pc[r] = "waiting" /\ pc'[r] = "done"
              => C7_TimeoutStep(r) /\ ~swept[r]]_vars

\* C7 as amended: the busy outcome only arises from the lock not being obtained
\* within one second, never from finding the session processing; the request
\* has then refreshed last_accessed of its session, which was and stays in the
\* store, has run the expiry sweep if one was due, and has changed nothing else.
C7_BusyFrame ==
    [][\A r \in Req :
          /\ pc[r] = "waiting" /\ pc'[r] = "done" => C7_TimeoutStep(r)
          /\ pc[r] = "derived" /\ pc'[r] = "waiting"
                => C7_WaitStepSession(r) /\ C7_WaitStepSweep
          /\ pc[r] = "derived" => pc'[r] # "done"
          /\ pc[r] # "done" /\ pc'[r] = "done" /\ response'[r] = SESSION_BUSY
                => pc[r] = "waiting"]_vars

\* a request was answered busy
C7_Witness == \E r \in Req : pc[r] = "done" /\ response[r] = SESSION_BUSY

\* the error text contains the signature of the oversized context
HasSignature(text) == \E i \in 1..Len(text) : text[i] = LIST_STRIP_ERROR[1]

C8_Converted(r, text) ==
    /\ pc'[r] = "done"
    /\ sessions'[thread_id[r]] = NoSession
    /\ response'[r] = IF HasSignature(text) THEN TOKEN_LIMIT_ERROR ELSE GENERAL_ERROR

\* C8: an error raised inside the turn, by the pipeline or by the extraction,
\* ends the handler's turn with the session of the thread id deleted and with
\* the token-limit reply when the error text contains the signature, the
\* general-error reply otherwise.
C8_ErrorsBecomeReplies ==
    [][\A r \in Req :
          TurnEnds(r) =>
              /\ \A e \in ErrorTexts : TurnRaises(r, e) => C8_Converted(r, e)
              /\ \A m \in TurnResults :
                    ProcessLLMResponse(m).raised # <<>> /\ TurnReturns(r, m)
                        => C8_Converted(r, ProcessLLMResponse(m).raised)]_vars

\* both fallback replies were given
C8_Witness ==
    \E r1, r2 \in Req :
        /\ pc[r1] = "done" /\ response[r1] = TOKEN_LIMIT_ERROR
        /\ pc[r2] = "done" /\ response[r2] = GENERAL_ERROR

\* C9: when the last message of the result is a model message carrying
\* invalid tool calls, also one with empty content, the reply is the
\* tool-call-failure message with the first error and the store is left as
\* it is, every session with the memory it owns.
C9_ToolCallFailureKeepsSession ==
    [][\A r \in Req : \A m \in TurnResults :
          /\ TurnEnds(r)
          /\ Last(m).type = "ai"
          /\ Last(m).invalid_tool_calls # <<>>
          /\ TurnReturns(r, m)
          => /\ response'[r] =
                   Reply("tool_call_failed", <<Head(Last(m).invalid_tool_calls)>>)
             /\ UNCHANGED <<sessions, removed_by>>]_vars

\* a turn was answered with the tool-call failure and its session is in the store
C9_Witness ==
    \E r \in Req :
        /\ pc[r] = "done"
        /\ response[r].tag = "tool_call_failed"
        /\ \E k \in ThreadIds :
              sessions[k] # NoSession /\ last_accessed[sessions[k]] = now

\* n spaces
RECURSIVE Spaces(_)
Spaces(n) == IF n = 0 THEN <<>> ELSE <<" ">> \o Spaces(n - 1)

\* t is c without its surrounding whitespace
IsStripOf(t, c) ==
    /\ t = <<>> \/ (Head(t) # " " /\ Last(t) # " ")
    /\ \E i, j \in 0..Len(c) : c = Spaces(i) \o t \o Spaces(j)

\* the content is empty or only whitespace
Blank(c) == c.val = <<>> \/ (c.kind = "str" /\ \A i \in 1..Len(c.val) : c.val[i] = " ")

\* the rows of the table that the claim and its amendment share
C10_CommonRows(m, out) ==
    /\ m.type = "ai" /\ m.invalid_tool_calls # <<>>
          => out = Extracted(Reply("tool_call_failed", <<Head(m.invalid_tool_calls)>>),
                             FALSE)
    /\ m.type = "ai" /\ m.invalid_tool_calls = <<>> /\ Blank(m.content)
          => out = Extracted(IF m.finish_reason = "SAFETY"
                             THEN SAFETY_BLOCKED ELSE NOT_UNDERSTOOD, TRUE)
    /\ m.type = "ai" /\ m.invalid_tool_calls = <<>> /\ ~Blank(m.content)
         /\ m.content.kind = "str"
          => /\ out.raised = <<>> /\ ~out.delete /\ out.reply.tag = "content"
             /\ IsStripOf(out.reply.text, m.content.val)
    /\ m.type = "tool" /\ m.content.val # <<>>
          => /\ out.raised = <<>> /\ ~out.delete /\ out.reply.tag = "content"
             /\ m.content.kind = "str" => out.reply.text = m.content.val
             /\ m.content.kind = "list"
                   => out.reply.text = <<"[">> \o m.content.val \o <<"]">>
    /\ m.type = "human" \/ (m.type = "tool" /\ m.content.val = <<>>)
          => out = Extracted(NOT_UNDERSTOOD, FALSE)

\* C10 as claimed: for every result, the last message is mapped to the reply
\* by the table; a model message with non-empty content gives that content
\* without its surrounding whitespace.
C10_Table ==
    extract_out # NoOutcome /\ extract_in # <<>> =>
        LET m == Last(extract_in)
        IN  /\ C10_CommonRows(m, extract_out)
            /\ m.type = "ai" /\ m.invalid_tool_calls = <<>> /\ ~Blank(m.content)
                  => extract_out.raised = <<>> /\ extract_out.reply.tag = "content"

\* C10 as amended: the table holds for every result whose last message has
\* a string or an empty content; for a model message without invalid tool
\* calls whose content is a non-empty list the extraction raises the
\* AttributeError of list.strip and chooses no reply; for a result without
\* messages the reply is the configured empty reply and the session is kept.
C10_TableForStrings ==
    extract_out # NoOutcome =>
        IF extract_in = <<>>
        THEN extract_out = Extracted(ASSISTANT_EMPTY_REPLY, FALSE)
        ELSE LET m == Last(extract_in)
             IN  /\ C10_CommonRows(m, extract_out)
                 /\ m.type = "ai" /\ m.invalid_tool_calls = <<>> /\ ~Blank(m.content)
                      /\ m.content.kind = "list"
                       => extract_out = Raised(LIST_STRIP_ERROR)

\* a content with surrounding whitespace was extracted without it
C10_Witness ==
    /\ extract_in # <<>>
    /\ Last(extract_in).type = "ai"
    /\ Last(extract_in).content = StrContent(<<" ", "a">>)
    /\ extract_out = Extracted(Reply("content", <<"a">>), FALSE)

(***************************************************************************)
(* Properties of the store: lookup, creation and expiry                    *)
(***************************************************************************)
\* a step that is a call get_or_create_session(tid) returning s, made by
\* handle_chat or by the skill command
GetOrCreateCall(tid, s) ==
    \/ \E r \in Req : /\ pc[r] = "derived" /\ pc'[r] # "derived"
                      /\ tid = thread_id[r]
                      /\ s = session'[r]
    \/ /\ UNCHANGED <<pc, now>>
       /\ last_accessed' # last_accessed
       /\ \E ev \in Events : /\ tid = skill_thread_id(ev, group_chat_isolation)
                             /\ s = sessions'[tid]
                             /\ SkillList(ev)

\* the Session object x is in the store before, after the step
InStore(x) == \E k \in ThreadIds : sessions[k] = x
InStoreAfter(x) == \E k \in ThreadIds : sessions'[k] = x

\* the call is made more than CLEANUP_INTERVAL seconds after the last sweep
SweepTrigger == now - LAST_CLEANUP_TIME > CLEANUP_INTERVAL

\* x has not been accessed for more than CLEANUP_INTERVAL seconds
Stale(x) == now - last_accessed[x] > CLEANUP_INTERVAL

\* C11: a get_or_create call that is a sweep trigger leaves no session in the
\* store that had not been accessed for more than 600 seconds; every call
\* leaves a session accessed within the last 600 seconds in the store under
\* its key and, when that is the key asked for, returns this very object.
C11_StaleGoneFreshKept ==
    [][\A tid \in ThreadIds, s \in Sid :
          GetOrCreateCall(tid, s) =>
              /\ SweepTrigger =>
                    \A x \in Sid : InStore(x) /\ Stale(x) => ~InStoreAfter(x)
              /\ \A k \in ThreadIds :
                    sessions[k] # NoSession /\ ~Stale(sessions[k])
                        => /\ sessions'[k] = sessions[k]
                           /\ k = tid => s = sessions[k]]_vars

\* a request whose lookup swept a stale session away was handed the session
\* that was in the store under its key
C11_Witness ==
    \E r \in Req :
        /\ swept[r]
        /\ pc[r] = "waiting"
        /\ sessions[thread_id[r]] = session[r]

\* C12: a get_or_create call removes from the store exactly the sessions not
\* accessed for more than 600 seconds when it is a sweep trigger and none
\* otherwise; without a sweep, a lookup of a stale session returns the same
\* object, with the skills it had and last_accessed refreshed.
C12_SweepExact ==
    [][\A tid \in ThreadIds, s \in Sid :
          GetOrCreateCall(tid, s) =>
              /\ \A x \in Sid :
                    InStore(x) /\ ~InStoreAfter(x) <=> SweepTrigger /\ InStore(x) /\ Stale(x)
              /\ ~SweepTrigger /\ sessions[tid] # NoSession =>
                    /\ s = sessions[tid]
                    /\ sessions'[tid] = s
                    /\ last_accessed'[s] = now
                    /\ active_skills'[s] = active_skills[s]]_vars

\* a session that outlived a sweep is stale, no sweep is due, and a request
\* is about to look it up
C12_Witness ==
    \E r \in Req :
        /\ pc[r] = "derived"
        /\ LAST_CLEANUP_TIME > 0
        /\ ~SweepTrigger
        /\ sessions[thread_id[r]] # NoSession
        /\ Stale(sessions[thread_id[r]])

\* C13 as claimed: get_or_create_session returns the Session stored under the
\* thread id whenever one is stored under it.
C13_ReturnsStored ==
    [][\A tid \in ThreadIds, s \in Sid :
          GetOrCreateCall(tid, s) /\ sessions[tid] # NoSession
              => s = sessions[tid]]_vars

\* objects not yet constructed have the values the constructor gives them
C13_AsConstructed ==
    \A x \in Sid :
        x > allocated => /\ lock[x] = NoReq /\ waiters[x] = <<>>
                         /\ ~processing[x] /\ processing_start_time[x] = NoTime
                         /\ active_skills[x] = DEFAULT_SKILLS

\* the session stored under tid survives the sweep the call starts with
C13_Kept(tid) ==
    /\ sessions[tid] # NoSession
    /\ ~(SweepTrigger /\ Stale(sessions[tid]))

\* C13 as amended: get_or_create_session returns the Session stored under the
\* thread id when one is left there by the sweep the call starts with when a
\* sweep is due, and otherwise inserts and returns a new Session with the
\* default non-empty skills, processing false and a lock nobody but the
\* caller holds; in both cases last_accessed of the returned session is the
\* current time and the store maps the thread id to it.
C13_GetOrCreate ==
    /\ []C13_AsConstructed
    /\ [][\A tid \in ThreadIds, s \in Sid :
             GetOrCreateCall(tid, s) =>
                 /\ C13_Kept(tid) => s = sessions[tid]
                 /\ ~C13_Kept(tid) =>
                       /\ s = allocated + 1
                       /\ allocated' = s
                       /\ active_skills'[s] = DEFAULT_SKILLS
                       /\ DEFAULT_SKILLS # <<>>
                       /\ waiters'[s] = <<>>
                       /\ \/ lock'[s] = NoReq /\ ~processing'[s]
                          \/ \E r \in Req : /\ pc[r] = "derived"
                                            /\ pc'[r] = "invoking"
                                            /\ lock'[s] = r
                 /\ last_accessed'[s] = now
                 /\ sessions'[tid] = s]_vars

\* two sessions were inserted and a stored one was returned to a request
C13_Witness ==
    /\ allocated = 2
    /\ \E r \in Req : pc[r] = "waiting" /\ sessions[thread_id[r]] = session[r]

(***************************************************************************)
(* handle_chat_command: chat group <true|false>                            *)
(***************************************************************************)
\* lines 530-540: the keys the command removes once the flag is set to
\* isolation: key.startswith("group_{gid}_") when it is now on,
\* key == "group_{gid}" when it is now off, every private key when the
\* command comes from a private chat
group_keys_to_remove(ev, isolation) ==
    IF ev.kind = "group"
    THEN IF isolation
         THEN {k \in Live : k[1] = "group" /\ Len(k) = 3 /\ k[2] = ev.group_id}
         ELSE {k \in Live : k = <<"group", ev.group_id>>}
    ELSE {k \in Live : k[1] = "private"}

\* lines 515-548: chat group <true|false>, sent from the context of ev
SetGroupIsolation(ev, isolation) ==
    /\ group_chat_isolation' = isolation
    /\ sessions' = Without(group_keys_to_remove(ev, isolation))
    /\ removed_by' = Gone(group_keys_to_remove(ev, isolation), "removed")
    /\ UNCHANGED <<clockVars, LAST_CLEANUP_TIME, allocated, thread_id_of,
                   last_accessed, lock, waiters, processing, processing_start_time,
                   active_skills, enable_group, enable_private,
                   handleVars, extractVars, skillVars>>

\* lines 549-556: chat down, chat up
SetEnabled(on) ==
    /\ enable_private' = on
    /\ enable_group' = on
    /\ UNCHANGED <<clockVars, storeVars, objVars, group_chat_isolation,
                   handleVars, extractVars, skillVars>>

\* the session manager under chat messages and the commands clear, skill
\* list, group, down and up, at one instant
GroupNext ==
    \/ \E r \in Req, ev \in Events : Start(r, ev)
    \/ \E r \in Req : GetSession(r)
    \/ \E r \in Req : AcquireAfterWait(r)
    \/ \E r \in Req, messages \in TurnResults : TurnReturns(r, messages)
    \/ \E r \in Req, error_message \in ErrorTexts : TurnRaises(r, error_message)
    \/ Clear
    \/ \E ev \in Events : SkillList(ev)
    \/ \E ev \in Events, isolation \in BOOLEAN : SetGroupIsolation(ev, isolation)
    \/ \E on \in BOOLEAN : SetEnabled(on)

GroupSpec == Init /\ [][GroupNext]_vars

\* the key of group gid has the shape that isolation gives the thread ids
HasShape(k, gid, isolation) ==
    /\ k[1] = "group"
    /\ k[2] = gid
    /\ Len(k) = (IF isolation THEN 3 ELSE 2)

\* C14: when the group command changes the isolation flag in a group, the
\* only sessions removed from the store are those of that group whose key has
\* the old shape; sessions whose key has the new shape, sessions of other
\* groups and of private chats remain.
C14_PurgesOldShapeOnly ==
    [][\A ev \in Events, isolation \in BOOLEAN :
          /\ ev.kind = "group"
          /\ isolation # group_chat_isolation
          /\ SetGroupIsolation(ev, isolation)
          => \A k \in ThreadIds :
                sessions[k] # NoSession /\ sessions'[k] = NoSession
                    => HasShape(k, ev.group_id, ~isolation)]_vars

\* the thread id of an event of the given kind, group and user under flag
ThreadKey(kind, group_id, user_id, flag) ==
    IF kind = "group"
    THEN IF flag THEN <<"group", group_id, user_id>> ELSE <<"group", group_id>>
    ELSE <<"private", user_id>>

\* C15: the thread id handle_chat derives for an event is the function
\* ThreadKey of the event's kind, group id, user id and the isolation flag,
\* and a skill command for the same event under the same flag addresses the
\* session stored under that same thread id.
C15_ThreadIdFunction ==
    [][\A ev \in Events :
          LET k == ThreadKey(ev.kind, ev.group_id, ev.user_id, group_chat_isolation)
          IN  /\ \A r \in Req :
                    pc[r] = "idle" /\ pc'[r] = "derived" /\ event'[r] = ev
                        => thread_id'[r] = k
              /\ skill_thread_id(ev, group_chat_isolation) = k
              /\ UNCHANGED pc /\ last_accessed' # last_accessed /\ SkillList(ev)
                    => /\ sessions'[k] # NoSession
                       /\ last_accessed'[sessions'[k]] = now]_vars

\* under isolation a request for a group event executes a turn on the session
\* stored under group_{gid}_{uid}
C15_Witness ==
    \E r \in Req :
        /\ pc[r] = "invoking"
        /\ group_chat_isolation
        /\ event[r].kind = "group"
        /\ thread_id[r] = <<"group", event[r].group_id, event[r].user_id>>
        /\ sessions[thread_id[r]] = session[r]

\* processing is switched off for events of this kind
SwitchedOff(kind) ==
    \/ kind = "group" /\ ~enable_group
    \/ kind = "private" /\ ~enable_private

\* C16 as claimed: while processing is switched off for the kind of its
\* event, no chat message looks up or creates a session or starts a turn.
C16_NoTurnWhileDisabled ==
    [][\A r \in Req :
          \/ pc[r] = "derived" /\ pc'[r] # "derived"
          \/ pc[r] # "invoking" /\ pc'[r] = "invoking"
          => ~SwitchedOff(event[r].kind)]_vars

\* C16 as amended: a chat message that arrives while processing is switched
\* off for the kind of its event is answered with the disabled message and
\* starts no turn, then or later: it changes neither the store nor any
\* session; a message that arrives while processing is on goes on towards
\* its turn, also when the switch is turned off before the turn starts.
C16_DisabledOnArrival ==
    [][\A r \in Req :
          /\ \A ev \in Events :
                Start(r, ev) =>
                    IF SwitchedOff(ev.kind)
                    THEN /\ pc'[r] = "done"
                         /\ response'[r] = DISABLED
                         /\ UNCHANGED <<storeVars, objVars>>
                    ELSE pc'[r] = "derived" /\ event'[r] = ev
          /\ pc[r] = "done" => pc'[r] = "done"]_vars

\* one message was answered with the disabled message and, the chat being
\* switched on, another executes its turn
C16_Witness ==
    \E r1, r2 \in Req :
        /\ pc[r1] = "done" /\ response[r1] = DISABLED
        /\ pc[r2] = "invoking"
        /\ ~SwitchedOff(event[r2].kind)

(***************************************************************************)
(* Specification of the skills and of the graph of a turn                  *)
(***************************************************************************)
\* the skill_setup calls the model asks for
ToolCalls ==
    {[action |-> "enable", skill_name |-> "sgu"],
     [action |-> "disable", skill_name |-> "sgu"],
     [action |-> "enable", skill_name |-> UnknownSkill]}

\* the result of a turn whose last message is an answer of the model
ANSWER == <<HUMAN, AIMsg(StrContent(<<"a">>), <<>>, "STOP")>>

\* the texts of the messages users send
HumanTexts == {<<"h", "i">>, <<"S", "G", "U">>}

\* what the model answers: a skill_setup call, a text or nothing
Answers == {AIMsg(StrContent(<<"a">>), <<>>, "STOP")}
Responses == {AICall(call) : call \in ToolCalls} \cup Answers

\* __init__.py 362-368 with graph.py 195-266 and 275: the graph adds the human
\* message of the turn to the messages of its state when the turn starts; the
\* chatbot node binds the tools, builds the prompt and trims the messages;
\* with nothing left it returns no message, otherwise it invokes the model on
\* the fixed messages and the trimmed ones and returns the response;
\* tools_condition then sends the graph to the tools node or to its end
Chatbot(r, text, ai_message) ==
    /\ pc[r] = "invoking"
    /\ node[r] = "chatbot"
    /\ LET s == session[r]
           messages == IF invokes[r] = 0 /\ invoked[r] = NoInvoke
                       THEN memory[s] \o <<HumanMsg(StrContent(text))>>
                       ELSE memory[s]
           trimmed_messages == trimmer(messages)
       IN  IF trimmed_messages = <<>>
           THEN /\ memory' = [memory EXCEPT ![s] = messages]
                /\ node' = [node EXCEPT ![r] = tools_condition(messages)]
                /\ invoked' = [invoked EXCEPT ![r] =
                                  [window |-> <<>>] @@ chatbot(thread_id[r])]
                /\ UNCHANGED <<invokes, tool_call>>
           ELSE /\ has_tool_calls(ai_message)
                     => /\ invokes[r] < MaxInvokes
                        /\ "skill_setup" \in chatbot(thread_id[r]).tools
                /\ memory' = [memory EXCEPT ![s] = messages \o chatbot_returns(ai_message)]
                /\ node' = [node EXCEPT ![r] = tools_condition(memory'[s])]
                /\ invoked' = [invoked EXCEPT ![r] =
                                  [window |-> fixed_messages \o trimmed_messages]
                                      @@ chatbot(thread_id[r])]
                /\ invokes' = [invokes EXCEPT ![r] = @ + 1]
                /\ tool_call' = [tool_call EXCEPT ![r] =
                                    IF has_tool_calls(ai_message)
                                    THEN ai_message.tool_calls[1] ELSE @]
    /\ UNCHANGED <<clockVars, storeVars, objVars, cfgVars, handleVars, extractVars,
                   envVars, SKILL_STORE, active_tools, command_reply>>

\* graph.py 272-276 with core_tools.py 21-46: the tools node executes the
\* skill_setup call, adds its result to the messages and hands over to the
\* chatbot node
SkillSetup(r) ==
    /\ pc[r] = "invoking"
    /\ node[r] = "tools"
    /\ SKILL_STORE' = skill_setup(tool_call[r].action, tool_call[r].skill_name)
    /\ memory' = [memory EXCEPT ![session[r]] =
                      @ \o <<ToolMsg(StrContent(skill_setup_returns(
                                 tool_call[r].action, tool_call[r].skill_name)))>>]
    /\ node' = [node EXCEPT ![r] = "chatbot"]
    /\ tool_call' = [tool_call EXCEPT ![r] = NoCall]
    /\ UNCHANGED <<clockVars, storeVars, objVars, cfgVars, handleVars, extractVars,
                   envVars, active_tools, invokes, invoked, command_reply>>

\* list.remove: q without the first x
remove(q, x) ==
    LET i == CHOOSE j \in 1..Len(q) : q[j] = x /\ \A k \in 1..(j - 1) : q[k] # x
    IN  SubSeq(q, 1, i - 1) \o SubSeq(q, i + 1, Len(q))

\* a load that never looks the name up in the registry
skills_after_unchecked(action, skill_name, skills) ==
    IF action = "load"
    THEN IF skill_name \notin Range(skills) THEN Append(skills, skill_name) ELSE skills
    ELSE IF skill_name \in Range(skills) THEN remove(skills, skill_name) ELSE skills

\* a load that appends a registered name whether it is active or not
skills_after_appending(action, skill_name, skills) ==
    IF action = "load"
    THEN IF skill_name \in DOMAIN SKILL_REGISTRY
         THEN Append(skills, skill_name)
         ELSE skills
    ELSE IF skill_name \in Range(skills)
         THEN remove(skills, skill_name)
         ELSE skills

\* lines 608-631: what chat skill load / unload makes of session.active_skills
skills_after(action, skill_name, skills) ==
    IF action = "load"
    THEN IF skill_name \in DOMAIN SKILL_REGISTRY /\ skill_name \notin Range(skills)
         THEN Append(skills, skill_name)
         ELSE skills
    ELSE IF skill_name \in Range(skills)
         THEN remove(skills, skill_name)
         ELSE skills

\* lines 608-631: what chat skill load / unload answers
SKILL_NOT_FOUND == Reply("Skill '{skill_name}' not found.", <<>>)
SKILL_LOADED == Reply("Skill '{skill_name}' loaded.", <<>>)
SKILL_ALREADY_ACTIVE == Reply("Skill '{skill_name}' already active.", <<>>)
SKILL_UNLOADED == Reply("Skill '{skill_name}' unloaded.", <<>>)
SKILL_NOT_ACTIVE == Reply("Skill '{skill_name}' wasn't active.", <<>>)

skill_reply(action, skill_name, skills) ==
    IF action = "load"
    THEN IF skill_name \notin DOMAIN SKILL_REGISTRY THEN SKILL_NOT_FOUND
         ELSE IF skill_name \notin Range(skills) THEN SKILL_LOADED
         ELSE SKILL_ALREADY_ACTIVE
    ELSE IF skill_name \in Range(skills) THEN SKILL_UNLOADED
         ELSE SKILL_NOT_ACTIVE

\* lines 589-631: chat skill load <name> and chat skill unload <name>, sent
\* from the context of ev
SkillCommand(ev, action, skill_name) ==
    /\ LET tid == skill_thread_id(ev, group_chat_isolation)
           s == get_or_create_session(tid)
       IN  /\ GetOrCreate(tid, s)
           /\ sessions' = [Without(swept_keys) EXCEPT ![tid] = s]
           /\ removed_by' = Gone(swept_keys, "removed")
           /\ last_accessed' = [last_accessed EXCEPT ![s] = now]
           /\ active_skills' = [active_skills EXCEPT ![s] =
                                   skills_after(action, skill_name, @)]
           /\ command_reply' = skill_reply(action, skill_name, active_skills[s])
    /\ UNCHANGED <<clockVars, lock, waiters, processing, processing_start_time,
                   cfgVars, handleVars, extractVars, envVars, graphVars, active_tools>>

\* the plugin as loaded, with the skills it discovered and the configuration
\* of its built-in tools
SkillInit ==
    /\ InitManager
    /\ SKILL_REGISTRY \in Registries
    /\ config_builtin \in BuiltinConfigs
    /\ InitConfig
    /\ InitGraph
    /\ extract_in = <<>>
    /\ extract_out = NoOutcome

SkillNext ==
    \/ \E r \in Req, ev \in Events : Start(r, ev)
    \/ \E r \in Req : GetSession(r)
    \/ \E r \in Req : AcquireAfterWait(r)
    \/ \E r \in Req, text \in HumanTexts, ai_message \in Responses :
          Chatbot(r, text, ai_message)
    \/ \E r \in Req : SkillSetup(r)
    \/ \E r \in Req : node[r] = "end" /\ TurnReturns(r, memory[session[r]])

SkillSpec == SkillInit /\ [][SkillNext]_vars

(***************************************************************************)
(* Specification of the skill commands                                     *)
(***************************************************************************)
SkillActions == {"load", "unload"}
CommandNames == {"weather", UnknownSkill}

\* the plugin as loaded, with the skills it discovered
CommandInit ==
    /\ InitManager
    /\ SKILL_REGISTRY \in Registries
    /\ config_builtin = <<>>
    /\ InitConfig
    /\ InitGraph
    /\ extract_in = <<>>
    /\ extract_out = NoOutcome

\* the session manager at one instant under chat messages and the commands
\* skill list, skill load and skill unload
CommandNext ==
    \/ \E r \in Req, ev \in Events : Start(r, ev)
    \/ \E r \in Req : GetSession(r)
    \/ \E r \in Req : AcquireAfterWait(r)
    \/ \E r \in Req : TurnReturns(r, ANSWER)
    \/ \E ev \in Events : SkillList(ev)
    \/ \E ev \in Events, action \in SkillActions, skill_name \in CommandNames :
          SkillCommand(ev, action, skill_name)

CommandSpec == CommandInit /\ [][CommandNext]_vars

\* graph.py 204 and 212: the tools resolved for a set of active skills
resolve(skills) == load_tools(get_tools_for_skills(skills))

\* a step in which the chatbot node of request r binds tools and invokes
Invokes(r) == pc[r] = "invoking" /\ invokes'[r] = invokes[r] + 1

\* C17: the tool set bound to the model at each Invoke of a turn is the one
\* resolved from the active skills of the turn's own session, which handle_chat
\* passed into the turn as active_tools.
C17_BoundFromSession ==
    [][\A r \in Req :
          Invokes(r) => invoked'[r].tools = load_tools(active_tools[r])]_vars

\* C18: a skill_setup call executed in a turn of one thread changes nothing of
\* what a turn of any other thread binds and injects: its tools, the statuses
\* of its skill catalog and its knowledge text.
C18_NoSharedState ==
    [][\A r \in Req :
          node[r] = "tools" /\ node'[r] = "chatbot"
            => \A tid \in ThreadIds :
                  tid # thread_id[r] => chatbot(tid)' = chatbot(tid)]_vars

\* the tools a skill declares: those its registered modules export
DeclaredTools(skill) ==
    IF skill \in DOMAIN SKILL_REGISTRY
    THEN UNION {MODULE_TOOLS[m] : m \in SKILL_REGISTRY[skill]}
    ELSE {}

\* the tools present whatever the active skills: skill_setup and the built-in
\* tools the configuration names
MandatorySet == {"skill_setup"} \cup (Range(config_builtin) \cap CORE_TOOLS)

SkillSets == SUBSET (SkillNames \cup {UnknownSkill})

\* C19: for every set of active skill names the resolved tool set is the union
\* of the tools declared by each active skill and of the mandatory set, and
\* skill_setup is among the tools bound at every Invoke, also when no skill is
\* active.
C19_UnionPlusMandatory ==
    /\ \A S \in SkillSets :
          resolve(S) = UNION {DeclaredTools(skill) : skill \in S} \cup MandatorySet
    /\ resolve({}) = MandatorySet
    /\ \A r \in Req : invokes[r] > 0 => "skill_setup" \in invoked[r].tools

\* with a configuration that names built-in tools but not skill_setup, one
\* Invoke bound the mandatory set alone, no skill being active, and another
\* bound the tools of an active skill as well
C19_Witness ==
    \E r1, r2 \in Req :
        /\ config_builtin # <<>>
        /\ invokes[r1] > 0 /\ invoked[r1].tools = MandatorySet
        /\ invoked[r1].statuses = {}
        /\ invokes[r2] > 0 /\ "sgu_query" \in invoked[r2].tools

\* names the registry does not have
Unregistered == {name \in SkillNames \cup {UnknownSkill} : name \notin DOMAIN SKILL_REGISTRY}

\* C20: names that are not in the skill registry are ignored by the tool
\* resolution: resolve(S \cup U) = resolve(S) for every set S of skills and
\* every set U of unregistered names, resolve({unknown}) = resolve({}), and the
\* modules handed to a turn all come from the registry.
C20_UnknownIgnored ==
    /\ \A S \in SkillSets : \A U \in SUBSET Unregistered :
          /\ get_tools_for_skills(S \cup U) = get_tools_for_skills(S)
          /\ resolve(S \cup U) = resolve(S)
    /\ resolve({UnknownSkill}) = resolve({})
    /\ \A r \in Req :
          active_tools[r] # NoTools
            => active_tools[r] \subseteq
                  UNION {SKILL_REGISTRY[k] : k \in DOMAIN SKILL_REGISTRY}

\* a turn began for a session whose active skills name the skill weather,
\* which was not discovered: the modules handed to the turn are those of sgu
C20_Witness ==
    \E r \in Req :
        /\ pc[r] = "invoking"
        /\ "weather" \in Unregistered
        /\ "weather" \in Range(active_skills[session[r]])
        /\ active_tools[r] = {"skills.sgu.tools"}

\* C28: in every reachable state of every Session, processing is true if and
\* only if processing_start_time is set, and processing is true only while the
\* lock of the session is held by a request executing a turn on that session;
\* so whoever finds the lock free finds processing false.
C28_ProcessingIffStartedAndHeld ==
    \A s \in Sid :
        /\ processing[s] <=> processing_start_time[s] # NoTime
        /\ processing[s]
             => /\ lock[s] \in Req
                /\ pc[lock[s]] = "invoking"
                /\ session[lock[s]] = s
        /\ lock[s] = NoReq => ~processing[s]

\* one turn has ended with a reply and released its session, another is
\* executing with the flag and the start time set on the session it locked
C28_Witness ==
    \E r1, r2 \in Req :
        /\ pc[r1] = "done" /\ response[r1] \notin {DISABLED, SESSION_BUSY, NoReply}
        /\ pc[r2] = "invoking"
        /\ processing[session[r2]]
        /\ processing_start_time[session[r2]] = now
        /\ lock[session[r2]] = r2
        /\ \E s \in Sid : s # session[r2] /\ allocated >= s /\ ~processing[s]

\* C29: the deletion a turn performs when it ends in an error removes from the
\* store only the Session object the turn ran on.
C29_DeletesOwnSessionOnly ==
    [][\A r \in Req :
          TurnEnds(r)
            => \A k \in ThreadIds :
                  sessions'[k] # sessions[k] => sessions[k] = session[r]]_vars

(***************************************************************************)
(* Specification of try_acquire_lock and start_processing on a Session     *)
(* whose flag a holder may have left behind                                *)
(***************************************************************************)
LockTimes == {0, 1, 59, 60, 61, 62}

\* one Session is stored for the private chat; it was last accessed at some
\* time, its lock is free, and its flag is clear or was set at some time and
\* never cleared; a request for it has just been handed the lock
LockInit ==
    /\ now \in LockTimes
    /\ sessions = [k \in ThreadIds |-> IF k = <<"private", 9>> THEN 1 ELSE NoSession]
    /\ LAST_CLEANUP_TIME = 0
    /\ allocated = 1
    /\ thread_id_of = [s \in Sid |-> IF s = 1 THEN <<"private", 9>> ELSE NoThread]
    /\ \E t \in {x \in LockTimes : x <= now} :
          last_accessed = [s \in Sid |-> IF s = 1 THEN t ELSE NoTime]
    /\ lock = [s \in Sid |-> NoReq]
    /\ waiters = [s \in Sid |-> IF s = 1 THEN <<1>> ELSE <<>>]
    /\ \E t \in {x \in LockTimes : x <= now} \cup {NoTime} :
          /\ processing = [s \in Sid |-> s = 1 /\ t # NoTime]
          /\ processing_start_time = [s \in Sid |-> IF s = 1 THEN t ELSE NoTime]
    /\ active_skills = [s \in Sid |-> DEFAULT_SKILLS]
    /\ removed_by = [s \in Sid |-> "live"]
    /\ group_chat_isolation = FALSE
    /\ enable_group = TRUE
    /\ enable_private = TRUE
    /\ pc = [r \in Req |-> IF r = 1 THEN "waiting" ELSE "idle"]
    /\ event = [r \in Req |-> IF r = 1
                              THEN [kind |-> "private", group_id |-> 0, user_id |-> 9]
                              ELSE NoEvent]
    /\ thread_id = [r \in Req |-> IF r = 1 THEN <<"private", 9>> ELSE NoThread]
    /\ session = [r \in Req |-> IF r = 1 THEN 1 ELSE NoSession]
    /\ wait_start = [r \in Req |-> IF r = 1 THEN now ELSE NoTime]
    /\ response = [r \in Req |-> NoReply]
    /\ swept = [r \in Req |-> FALSE]
    /\ InitSkills
    /\ extract_in = <<>>
    /\ extract_out = NoOutcome

LockNext ==
    \/ \E r \in Req, ev \in Events : Start(r, ev)
    \/ \E r \in Req : GetSession(r)
    \/ \E r \in Req : AcquireAfterWait(r)
    \/ \E r \in Req, messages \in TurnResults : TurnReturns(r, messages)
    \/ \E r \in Req, error_message \in ErrorTexts : TurnRaises(r, error_message)

LockSpec == LockInit /\ [][LockNext]_vars

\* a step in which request r, handed the lock of its session, calls
\* try_acquire_lock
TryAcquires(r) == pc[r] = "waiting" /\ pc'[r] # "waiting" /\ lock[session[r]] = NoReq

\* C30: after a successful acquisition the session has processing true, the
\* acquisition time as its start time and last_accessed refreshed when the
\* turn starts; try_acquire_lock returns false exactly when processing is true
\* and the start time is at most 60 seconds old, and then changes nothing.
C30_AcquireMarksProcessing ==
    [][\A r \in Req :
          TryAcquires(r)
            => LET s == session[r]
                   a == try_acquire_lock(s, now)
                   fresh == processing[s] /\ now - processing_start_time[s] <= 60
               IN  /\ ~a.ok <=> fresh
                   /\ ~a.ok => /\ a.processing = processing[s]
                               /\ a.start = processing_start_time[s]
                   /\ pc'[r] = "invoking" <=> ~fresh
                   /\ pc'[r] = "invoking"
                        => /\ processing'[s]
                           /\ processing_start_time'[s] = now
                           /\ last_accessed'[s] = now
                           /\ lock'[s] = r]_vars

\* try_acquire_lock refused the first request, whose session carried a flag
\* at most 60 seconds old, and a second request has acquired a session and
\* executes its turn with the flag set and the acquisition time as start time
C30_Witness ==
    /\ pc[1] = "done"
    /\ response[1] = ErrorReply(FINISHED_EXCEPTION)
    /\ pc[2] = "invoking"
    /\ processing[session[2]]
    /\ processing_start_time[session[2]] = now
    /\ last_accessed[session[2]] = now

\* a step that may be a skill load / unload command: it belongs to no request
\* and touches the session side only
CommandStep ==
    /\ pc' = pc
    /\ SKILL_STORE' = SKILL_STORE
    /\ \/ command_reply' # command_reply
       \/ active_skills' # active_skills
       \/ sessions' # sessions

\* C23 as claimed: skill load of a name that is not in the registry reports
\* not-found and changes nothing of the store or of any session.
C23_UnknownLoadMutatesNothing ==
    [][CommandStep =>
          \A ev \in Events, skill_name \in CommandNames :
              /\ skill_name \notin DOMAIN SKILL_REGISTRY
              /\ SkillCommand(ev, "load", skill_name)
              => /\ command_reply' = SKILL_NOT_FOUND
                 /\ UNCHANGED <<storeVars, objVars>>]_vars

\* C23 as amended: every skill load / unload command first gets or creates
\* the session of its context, which stores it and refreshes its
\* last_accessed; load appends a name that is in the registry and not yet
\* active, reports not-found for a name outside the registry and leaves
\* active_skills alone in that case and when the name is already active;
\* unload removes an active name and otherwise reports that it was not active
\* and leaves active_skills alone; no other session's active_skills change.
C23_LoadUnload ==
    [][CommandStep =>
          \A ev \in Events, action \in SkillActions, skill_name \in CommandNames :
              SkillCommand(ev, action, skill_name)
              => LET tid == ThreadKey(ev.kind, ev.group_id, ev.user_id,
                                      group_chat_isolation)
                     s == sessions'[tid]
                     old == active_skills[s]
                     new == active_skills'[s]
                     known == skill_name \in DOMAIN SKILL_REGISTRY
                     active == \E j \in DOMAIN old : old[j] = skill_name
                 IN  /\ s # NoSession
                     /\ last_accessed'[s] = now
                     /\ \A x \in Sid : x # s => active_skills'[x] = active_skills[x]
                     /\ action = "load" /\ known /\ ~active
                          => new = old \o <<skill_name>> /\ command_reply' = SKILL_LOADED
                     /\ action = "load" /\ known /\ active
                          => new = old /\ command_reply' = SKILL_ALREADY_ACTIVE
                     /\ action = "load" /\ ~known
                          => new = old /\ command_reply' = SKILL_NOT_FOUND
                     /\ action = "unload" /\ active
                          => /\ new = SelectSeq(old, LAMBDA x : x # skill_name)
                             /\ command_reply' = SKILL_UNLOADED
                     /\ action = "unload" /\ ~active
                          => new = old /\ command_reply' = SKILL_NOT_ACTIVE]_vars

\* a stored session had weather unloaded, and a later load of a name outside
\* the registry was answered not-found
C23_Witness ==
    \E k \in ThreadIds :
        /\ sessions[k] # NoSession
        /\ active_skills[sessions[k]] = <<"sgu">>
        /\ command_reply = SKILL_NOT_FOUND


(***************************************************************************)
(* Specification of the graph of a turn: messages, trimmer, tools node     *)
(***************************************************************************)
\* config-tools.toml tools.enabled and config.llm.max_context_messages
EnabledConfigs == {<<>>, <<"skills.sgu.tools">>}
ContextBudgets == {0, 2, 3}

\* an answer of the model without content
EMPTY_ANSWER == AIMsg(StrContent(<<>>), <<>>, "STOP")

\* what the model answers here: it enables the skill sgu, answers with a text
\* or answers with nothing
GraphResponses ==
    {AICall([action |-> "enable", skill_name |-> "sgu"]), EMPTY_ANSWER} \cup Answers

\* the plugin as loaded with the skills sgu and weather, under a configuration
GraphInit ==
    /\ InitManager
    /\ SKILL_REGISTRY = [n \in {"default", "sgu", "weather"} |->
                            IF n = "sgu" THEN {"skills.sgu.tools"}
                            ELSE IF n = "weather" THEN {"skills.weather.tools"} ELSE {}]
    /\ config_builtin = <<>>
    /\ config_enabled \in EnabledConfigs
    /\ max_context_messages \in ContextBudgets
    /\ system_prompt \in BOOLEAN
    /\ InitGraph
    /\ extract_in = <<>>
    /\ extract_out = NoOutcome

\* chat messages at one instant: the nodes of the graph, then handle_chat
\* extracts the reply from the messages of the state, or handles the error a
\* node of the graph raised
GraphNext ==
    \/ \E r \in Req, ev \in Events : Start(r, ev)
    \/ \E r \in Req : GetSession(r)
    \/ \E r \in Req : AcquireAfterWait(r)
    \/ \E r \in Req, text \in HumanTexts, ai_message \in GraphResponses :
          Chatbot(r, text, ai_message)
    \/ \E r \in Req : SkillSetup(r)
    \/ \E r \in Req : node[r] = "end" /\ TurnReturns(r, memory[session[r]])
    \/ \E r \in Req : node[r] # "end" /\ TurnRaises(r, <<"timed out">>)

GraphSpec == GraphInit /\ [][GraphNext]_vars

\* C21: every tool bound to the model at an Invoke is one of the tools the
\* tools node was built with, so that a call of a bound tool can be executed
C21_BoundWithinToolNode ==
    \A r \in Req : invokes[r] > 0 => invoked[r].tools \subseteq all_enabled_tools

\* skills.py 69: the keywords of the SKILL.md of every discovered skill
SKILL_KEYWORDS ==
    [n \in DOMAIN SKILL_REGISTRY \ {"default"} |->
        IF n = "sgu" THEN {<<"s", "g", "u">>} ELSE {<<"r", "a", "i", "n">>}]

\* the case-folded text
casefold(text) == lower(text)

\* keyword in text
contains(text, keyword) ==
    \E i \in 0..(Len(text) - Len(keyword)) :
        SubSeq(text, i + 1, i + Len(keyword)) = keyword

\* the skills with a keyword in the case-folded text
keyword_skills(text) ==
    {n \in DOMAIN SKILL_KEYWORDS :
        \E keyword \in SKILL_KEYWORDS[n] : contains(casefold(text), keyword)}

\* the last human message of the messages
RECURSIVE latest_human(_)
latest_human(messages) ==
    IF messages = <<>> THEN <<>>
    ELSE IF messages[Len(messages)].type = "human"
         THEN messages[Len(messages)].content.val
         ELSE latest_human(SubSeq(messages, 1, Len(messages) - 1))

\* C22: at every Invoke the skills with a keyword in the case-folded latest
\* user message are active for the turn: their tools are bound and they are
\* shown as active
C22_KeywordSkillsActive ==
    [][\A r \in Req :
          Invokes(r) =>
              LET matched == keyword_skills(latest_human(invoked'[r].window))
              IN  /\ matched \subseteq invoked'[r].statuses
                  /\ load_tools(get_tools_for_skills(matched)) \subseteq invoked'[r].tools]_vars

\* the messages from the last human message on
RECURSIVE from_latest_human(_)
from_latest_human(messages) ==
    IF messages = <<>> THEN <<>>
    ELSE IF messages[Len(messages)].type = "human"
         THEN <<messages[Len(messages)]>>
         ELSE LET before == from_latest_human(SubSeq(messages, 1, Len(messages) - 1))
              IN  IF before = <<>> THEN <<>>
                  ELSE before \o <<messages[Len(messages)]>>

\* the messages the chatbot node of request r trimmed in the step that invoked
\* the model: those of the state without the response
history_at_invoke(r) ==
    SubSeq(memory'[session[r]], 1, Len(memory'[session[r]]) - 1)

\* C24: the window passed to the model at an Invoke, also at one that follows
\* the tools node, holds the most recent human message of the history and
\* everything after it, whatever the length of the history.
C24_WindowKeepsLatestHuman ==
    [][\A r \in Req :
          Invokes(r) =>
              /\ from_latest_human(history_at_invoke(r)) # <<>>
              /\ from_latest_human(invoked'[r].window)
                     = from_latest_human(history_at_invoke(r))]_vars

\* an Invoke after the tools node on a history longer than the budget: the
\* window has the tool result and starts, after the fixed messages, at the
\* human message of the turn
C24_Witness ==
    \E r \in Req :
        /\ pc[r] = "invoking" /\ invokes[r] = 2
        /\ Len(memory[session[r]]) - 1 > max_context_messages
        /\ Len(invoked[r].window) = Len(fixed_messages) + 3
        /\ invoked[r].window[Len(fixed_messages) + 1].type = "human"
        /\ invoked[r].window[Len(invoked[r].window)].type = "tool"

\* a step of the chatbot node of request r
ChatbotStep(r) == pc[r] = "invoking" /\ node[r] = "chatbot" /\ node'[r] # "chatbot"

\* the messages of the state when the chatbot node of request r runs: those
\* of the session, with the human message of the turn when the turn starts
state_messages(r) ==
    IF invoked[r] = NoInvoke
    THEN SubSeq(memory'[session[r]], 1, Len(memory[session[r]]) + 1)
    ELSE memory[session[r]]

\* the turn of request r is at the end of the graph after the chatbot node
\* found nothing left to send
ShortCircuited(r) ==
    pc[r] = "invoking" /\ node[r] = "end" /\ invoked[r] # NoInvoke /\ invoked[r].window = <<>>

\* C25: when the trimmer leaves nothing, the chatbot step adds no message to
\* the state and does not invoke the model, and the graph ends; the turn then
\* ends with a reply and deletes no session from the store.
C25_EmptyTrimShortCircuits ==
    [][\A r \in Req :
          /\ (ChatbotStep(r) /\ trimmer(state_messages(r)) = <<>>)
                => /\ memory'[session[r]] = state_messages(r)
                   /\ invokes'[r] = invokes[r]
                   /\ node'[r] = "end"
          /\ (ShortCircuited(r) /\ pc'[r] # pc[r])
                => /\ pc'[r] = "done"
                   /\ sessions' = sessions
                   /\ response'[r] \in {NOT_UNDERSTOOD, Reply("content", TOOL_RESULT.content.val)}]_vars

\* a turn that ended after the history with the tool result of the turn was
\* trimmed to nothing: its session is still stored
C25_Witness ==
    \E r \in Req :
        /\ pc[r] = "done" /\ invokes[r] = 1
        /\ invoked[r] # NoInvoke /\ invoked[r].window = <<>>
        /\ response[r] = Reply("content", TOOL_RESULT.content.val)
        /\ \E k \in ThreadIds :
              /\ sessions[k] # NoSession
              /\ Len(memory[sessions[k]]) = 3
              /\ memory[sessions[k]][3].type = "tool"

\* the steps of the turn of request r: the tools node runs, handle_chat
\* extracts the reply from the result of the graph
ExecutesTools(r) == pc[r] = "invoking" /\ node[r] = "tools" /\ node'[r] # "tools"
Extracts(r) == pc[r] = "invoking" /\ node[r] = "end" /\ pc'[r] # "invoking"
last_of(messages) == messages[Len(messages)]

\* the tools node is entered only by an Invoke whose response has tool calls
ToolsOnlyAfterCall(r) ==
    (node'[r] = "tools" /\ node[r] # "tools")
        => Invokes(r) /\ has_tool_calls(last_of(memory'[session[r]]))

\* the reply is extracted once, after an Invoke whose response has no tool
\* call or after the chatbot node found nothing left to send
ExtractOnceAtEnd(r) ==
    /\ Extracts(r) =>
          /\ pc'[r] = "done"
          /\ ~has_tool_calls(last_of(memory[session[r]]))
          /\ \/ ShortCircuited(r)
             \/ invokes[r] > 0 /\ last_of(memory[session[r]]).type = "ai"
    /\ pc[r] = "done" => pc'[r] = "done"

\* C26 as stated: the tools node runs only directly after an Invoke whose
\* response requests tool calls, the chatbot step after every run of the tools
\* node is an Invoke, and the reply is extracted once at the end.
C26_ToolsThenInvoke ==
    [][\A r \in Req :
          /\ ToolsOnlyAfterCall(r)
          /\ ExecutesTools(r) => node'[r] = "chatbot"
          /\ (ChatbotStep(r) /\ invokes[r] > 0) => Invokes(r)
          /\ ExtractOnceAtEnd(r)]_vars

\* C26 amended: the chatbot step after a run of the tools node is an Invoke
\* unless the trimmer leaves nothing, in which case the graph ends without one.
C26_ToolsThenChatbot ==
    [][\A r \in Req :
          /\ ToolsOnlyAfterCall(r)
          /\ ExecutesTools(r) => node'[r] = "chatbot"
          /\ (ChatbotStep(r) /\ invokes[r] > 0) =>
                \/ Invokes(r)
                \/ /\ trimmer(memory[session[r]]) = <<>>
                   /\ invokes'[r] = invokes[r]
                   /\ node'[r] = "end"
          /\ ExtractOnceAtEnd(r)]_vars

\* a finished turn with Invoke, tools node, Invoke, Extract
C26_Witness ==
    \E r \in Req :
        /\ pc[r] = "done" /\ invokes[r] = 2
        /\ response[r] = Reply("content", <<"a">>)
        /\ SKILL_STORE = StoreOf({"sgu"})

\* messages of a conversation: what a user sent, what the model answered,
\* what a tool returned; none of the fixed messages
Conversation(messages) ==
    \A i \in 1..Len(messages) :
        /\ messages[i] \notin Range(fixed_messages)
        /\ \/ messages[i].type = "human" /\ messages[i].content.val \in HumanTexts
           \/ messages[i] \in GraphResponses
           \/ messages[i] = TOOL_RESULT

\* C27: the system prompt with the skill catalog and the question / answer
\* pairs are built again at every Invoke and put before the trimmed messages,
\* and the step adds nothing but the response of the model to the memory of
\* the session, which holds only messages of the conversation.
C27_ContextNotPersisted ==
    [][\A r \in Req :
          /\ Invokes(r) =>
                /\ SubSeq(invoked'[r].window, 1, Len(fixed_messages)) = fixed_messages
                /\ SubSeq(invoked'[r].window, Len(fixed_messages) + 1,
                          Len(invoked'[r].window)) = trimmer(state_messages(r))
                /\ Len(memory'[session[r]]) = Len(state_messages(r)) + 1
                /\ last_of(memory'[session[r]]) \in GraphResponses
          /\ \A s \in Sid : Conversation(memory'[s])]_vars

\* after a turn with a tool call the memory of the stored session is the human
\* message, the call, the tool result and the answer
C27_Witness ==
    \E r \in Req, k \in ThreadIds :
        /\ pc[r] = "done" /\ invokes[r] = 2
        /\ sessions[k] # NoSession
        /\ Len(memory[sessions[k]]) = 4
        /\ memory[sessions[k]][1].type = "human"
        /\ has_tool_calls(memory[sessions[k]][2])
        /\ memory[sessions[k]][3] = TOOL_RESULT
        /\ memory[sessions[k]][4] \in Answers

(***************************************************************************)
(* Specification of the model command                                      *)
(***************************************************************************)
ModelInit ==
    /\ InitManager
    /\ InitSkills
    /\ extract_in = <<>>
    /\ extract_out = NoOutcome

\* chat messages and the command chat model at one instant
ModelNext ==
    \/ \E r \in Req, ev \in Events : Start(r, ev)
    \/ \E r \in Req : GetSession(r)
    \/ \E r \in Req : AcquireAfterWait(r)
    \/ \E r \in Req : TurnReturns(r, ANSWER)
    \/ \E model_name \in ModelNames, outcome \in Outcomes : ModelCommand(model_name, outcome)

ModelSpec == ModelInit /\ [][ModelNext]_vars

\* C31: a chat model command that fails leaves llm, graph_builder and the
\* session store as they were; one that succeeds replaces llm and
\* graph_builder together, the builder being the one built with the new llm,
\* and empties the session store.
C31_ModelSwitchAllOrNothing ==
    [][\A model_name \in ModelNames, outcome \in Outcomes :
          ModelCommand(model_name, outcome) =>
              /\ graph_builder' = build_graph(llm')
              /\ outcome # "ok" =>
                    /\ command_reply' = MODEL_SWITCH_FAILED
                    /\ <<llm, graph_builder, sessions>>' = <<llm, graph_builder, sessions>>
              /\ outcome = "ok" =>
                    /\ command_reply' = MODEL_SWITCHED(model_name)
                    /\ llm' = get_llm(model_name)
                    /\ \A k \in ThreadIds : sessions'[k] = NoSession]_vars

\* a failed switch after a successful one, with a session stored since
C31_Witness ==
    /\ command_reply = MODEL_SWITCH_FAILED
    /\ llm = get_llm(<<"g">>)
    /\ graph_builder = build_graph(llm)
    /\ \E k \in ThreadIds : sessions[k] # NoSession

(***************************************************************************)
(* Specification of the tool skill_setup under any call                    *)
(***************************************************************************)
SetupActions == {"enable", "disable", "toggle"}
SetupNames == {"sgu", UnknownSkill}
SetupCalls == [action : SetupActions, skill_name : SetupNames]

SetupInit ==
    /\ InitManager
    /\ InitSkills
    /\ extract_in = <<>>
    /\ extract_out = NoOutcome

\* turns in which the model calls skill_setup with any action and name
SetupNext ==
    \/ \E r \in Req, ev \in Events : Start(r, ev)
    \/ \E r \in Req : GetSession(r)
    \/ \E r \in Req : AcquireAfterWait(r)
    \/ \E r \in Req, text \in {<<"h", "i">>},
          ai_message \in {AICall(call) : call \in SetupCalls} \cup Answers :
          Chatbot(r, text, ai_message)
    \/ \E r \in Req : SkillSetup(r)
    \/ \E r \in Req : node[r] = "end" /\ TurnReturns(r, memory[session[r]])

SetupSpec == SetupInit /\ [][SetupNext]_vars

\* the strings of skill_setup that report an error
SetupErrors == {SETUP_BAD_ACTION} \cup {SETUP_NOT_FOUND(n) : n \in SetupNames}

LoadNames == {"sgu", "weather"}

\* chat messages and the commands skill load and skill unload with the names
\* of the two skills
LoadNext ==
    \/ \E r \in Req, ev \in Events : Start(r, ev)
    \/ \E r \in Req : GetSession(r)
    \/ \E r \in Req : AcquireAfterWait(r)
    \/ \E r \in Req : TurnReturns(r, ANSWER)
    \/ \E ev \in Events, action \in SkillActions, skill_name \in LoadNames :
          SkillCommand(ev, action, skill_name)

LoadSpec == ModelInit /\ [][LoadNext]_vars

\* no element of the sequence occurs twice
NoDuplicates(q) == \A i, j \in DOMAIN q : q[i] = q[j] => i = j

\* C33: whatever skill load and skill unload commands were given, no session's
\* active_skills holds a name twice, and a load that reports the name as
\* already active leaves every active_skills as it was.
C33_ActiveSkillsOrderedSet ==
    [][/\ \A s \in Sid : NoDuplicates(active_skills'[s])
       /\ (CommandStep /\ command_reply' = SKILL_ALREADY_ACTIVE)
             => active_skills' = active_skills]_vars

\* sgu was unloaded and loaded again, so that it now comes after weather, and
\* loading it once more was refused
C33_Witness ==
    /\ command_reply = SKILL_ALREADY_ACTIVE
    /\ \E k \in ThreadIds :
          /\ sessions[k] # NoSession
          /\ active_skills[sessions[k]] = <<"weather", "sgu">>

\* the tools of the modules of a skill
skill_tools(name) == UNION {module_tools(m) : m \in SKILL_REGISTRY[name]}

\* C34: a skill_setup call that enables a known skill puts it into the active
\* skills, which change by skill_setup calls only, and at every Invoke each
\* active skill has its tools bound, is listed as active in the catalog and has
\* its knowledge in the system prompt.
C34_EnabledSkillInEffect ==
    [][/\ \A r \in Req :
             /\ (ExecutesTools(r) /\ tool_call[r].action = "enable"
                                  /\ tool_call[r].skill_name \in SKILL_DESCRIPTIONS)
                    => tool_call[r].skill_name \in active_of(SKILL_STORE')
             /\ Invokes(r) =>
                    \A name \in active_of(SKILL_STORE) :
                        /\ skill_tools(name) \subseteq invoked'[r].tools
                        /\ name \in invoked'[r].statuses
                        /\ name \in invoked'[r].knowledge
       /\ active_of(SKILL_STORE') # active_of(SKILL_STORE)
             => \E r \in Req : ExecutesTools(r)]_vars

\* C35: without extension modules load_tools loads all core tools when the
\* configuration names no built-in tool, and otherwise the built-in tools the
\* configuration names and skill_setup; every Invoke with no active skill
\* binds that list.
C35_BuiltinDefaultsToAll ==
    /\ load_tools({}) = IF Range(config_builtin) = {}
                        THEN CORE_TOOLS
                        ELSE (Range(config_builtin) \cap CORE_TOOLS) \cup {"skill_setup"}
    /\ \A r \in Req :
          (invokes[r] > 0 /\ invoked[r].statuses = {} /\ Range(config_builtin) = {})
              => invoked[r].tools = CORE_TOOLS
====
